---- MODULE Spec2Model ----
(***************************************************************************)
(* A model of the dead-drop storage engine: the per-drop lock table        *)
(* (internal/storage/locks.go), the storage manager's SaveDrop, GetDrop    *)
(* and DeleteDrop (internal/storage/storage.go), the cleanup sweep         *)
(* (cleanupExpiredDrops) and the retrieve handler (handleRetrieve).        *)
(***************************************************************************)
EXTENDS Integers, Sequences, FiniteSets, TLC

\* ------------------------------------------------------------------------
\* Bounds
\* ------------------------------------------------------------------------

\* Number of goroutines that call the lock table directly (SpecLocks).
NumLockers == 2

\* Number of goroutines that save drops and read them back (SpecRT).
NumClients == 2

\* Number of goroutines calling the quota manager (SpecQuota) and the number
\* of calls they make together.
NumQuotaCallers == 2

MaxQuotaCalls == 4

\* Number of concurrent retrieve requests without a sweep (SpecRetrieve).
MaxHandlers == 2

\* Number of retrieve requests concurrent with the cleanup worker (Spec).
MaxSweepHandlers == 1

\* The drop identifiers in play (each stands for one valid 32-hex id).
IDSeq == <<"a", "b">>

IDs == {IDSeq[k] : k \in 1..Len(IDSeq)}

\* The value of a sync.Mutex nobody holds.
Unlocked == -1

\* Process 0 is the cleanup worker; the others are request goroutines.
Cleaner == 0

Max(a, b) == IF a > b THEN a ELSE b

Procs == 0..Max(Max(NumLockers, Max(NumClients, NumQuotaCallers)),
               Max(MaxHandlers, MaxSweepHandlers))

\* *sync.RWMutex values that can be live at once: one per map entry plus one
\* per goroutine that still holds a pointer returned by getLock.
Inst == 1..(Cardinality(IDs) + Cardinality(Procs))

VARIABLES
    mu,      \* DropLockManager.mu: Unlocked, or the goroutine holding it
    locks,   \* DropLockManager.locks: id -> instance, 0 when there is no entry
    rw,      \* the sync.RWMutex instances: [w: writer present, r: readerCount]
    ps,      \* per goroutine: program counter and locals
    fatal,   \* the Go runtime has stopped the process (sync: unlock of unlocked)
    disk,    \* the storage root: id -> drop directory
    quota,   \* QuotaManager counters
    env      \* what is fixed once the server runs: keys, configuration, the
             \* honeypot set, the clock reading; the ids generateID has drawn;
             \* the tally of the calls made to the quota manager (SpecQuota)

vars == <<mu, locks, rw, ps, fatal, disk, quota, env>>

lockVars == <<mu, locks, rw, fatal>>

storeVars == <<disk, quota, env>>

\* ------------------------------------------------------------------------
\* Encoding and cryptography (internal/crypto, encoding/json)
\* ------------------------------------------------------------------------

\* Byte values are 0..ByteMod-1.
ByteMod == 2

\* Longest plaintext, in bytes.
MaxLen == 1

\* Longest filename, in characters.
MaxNameLen == 1

\* Nonces are 0..MaxNonce.
MaxNonce == 1

\* gcm.NonceSize() and the GCM tag length, in bytes.
NonceSize == 12

TagSize == 16

\* One hour, in clock ticks.
TicksPerHour == 3

\* The clock reading and the configured max_age_hours, in hours.
NowHours == 2

MaxAgeHours == 1

\* Quota limits: max_storage_bytes and max_drops.
MaxStorageBytes == 1

MaxDrops == 2

Bytes == 0..(ByteMod - 1)

Nonces == 0..MaxNonce

SeqsUpTo(S, n) == UNION {[1..k -> S] : k \in 0..n}

Plaintexts == SeqsUpTo(Bytes, MaxLen)

\* A filename is a Go string: a sequence of runes and of bytes that are not
\* valid UTF-8.  "a" is an ordinary rune, "<" a rune that JSON escapes,
\* "xFF" a byte that is not valid UTF-8 and "uFFFD" the replacement rune.
NameChars == {"a", "<", "xFF", "uFFFD"}

Filenames == SeqsUpTo(NameChars \ {"uFFFD"}, MaxNameLen)

\* json.Marshal of a string: invalid UTF-8 is replaced by U+FFFD and the
\* HTML-sensitive runes are escaped.
jsonMarshalString(str) ==
    [i \in 1..Len(str) |->
        LET c == IF str[i] = "xFF" THEN "uFFFD" ELSE str[i]
        IN IF c = "<" THEN "\\u003c" ELSE c]

\* json.Unmarshal of a JSON string: escapes are decoded.
jsonUnmarshalString(js) ==
    [i \in 1..Len(js) |-> IF js[i] = "\\u003c" THEN "<" ELSE js[i]]

\* The AES-CTR keystream of GCM: one value per (key, nonce, position).
Keystream(key, nonce, i) == (key + nonce + i) % ByteMod

\* gcm.Seal: the masked plaintext followed by a tag over everything that is
\* authenticated.
Seal(key, nonce, plaintext, aad) ==
    LET ct == [i \in 1..Len(plaintext) |->
                 (plaintext[i] + Keystream(key, nonce, i)) % ByteMod]
    IN [ct |-> ct, tag |-> <<key, nonce, aad, ct>>]

\* An Open whose tag check leaves the additional data out.
Open_ignoring_aad(key, nonce, sealed, aad) ==
    IF sealed.tag # <<key, nonce, sealed.tag[3], sealed.ct>>
    THEN [ok |-> FALSE, pt |-> <<>>]
    ELSE [ok |-> TRUE,
          pt |-> [i \in 1..Len(sealed.ct) |->
                    (sealed.ct[i] + ByteMod - Keystream(key, nonce, i)) % ByteMod]]

\* gcm.Open: the tag is verified, then the mask is removed.
Open(key, nonce, sealed, aad) ==
    IF sealed.tag # <<key, nonce, aad, sealed.ct>>
    THEN [ok |-> FALSE, pt |-> <<>>]
    ELSE [ok |-> TRUE,
          pt |-> [i \in 1..Len(sealed.ct) |->
                    (sealed.ct[i] + ByteMod - Keystream(key, nonce, i)) % ByteMod]]

\* Files.  kind is "none" (no such file), "data" (nonce, ciphertext, tag),
\* "meta" (a metadata envelope) or "junk" (overwritten by SecureDelete).
NoFile == [kind |-> "none", size |-> 0, version |-> 0, nonce |-> 0, body |-> <<>>]

Junk(size) == [kind |-> "junk", size |-> size, version |-> 0, nonce |-> 0, body |-> <<>>]

\* EncryptStream: writes nonce, then ciphertext and tag.
EncryptStream(key, plaintext, aad, nonce) ==
    [kind |-> "data", size |-> NonceSize + Len(plaintext) + TagSize,
     version |-> 0, nonce |-> nonce, body |-> Seal(key, nonce, plaintext, aad)]

\* DecryptStream: reads the nonce, then the rest, and opens it.
DecryptStream(key, file, aad) ==
    IF file.kind # "data" \/ file.size < NonceSize
    THEN [ok |-> FALSE, pt |-> <<>>]
    ELSE Open(key, file.nonce, file.body, aad)

computeSHA256(data) == <<"sha256", data>>

\* hkdf.New(sha256.New, storageKey, nil, "dead-drop-metadata-" + dropID).
deriveMetadataKey(storageKey, dropID) == <<"hkdf", storageKey, dropID>>

metadataVersion == 1

roundToHour(t) == t - (t % TicksPerHour)

\* saveEncryptedMetadata: the payload is marshalled to JSON, sealed under the
\* per-drop key with the drop id as AAD and written as a version-1 envelope.
\* A metadata envelope is never empty; only that is read from its size.
saveEncryptedMetadata(storageKey, dropID, payload, nonce) ==
    LET json == [filename       |-> jsonMarshalString(payload.filename),
                 receipt        |-> payload.receipt,
                 timestamp_hour |-> payload.timestamp_hour,
                 file_hash      |-> payload.file_hash]
    IN [kind |-> "meta", size |-> 1 + Len(json.filename),
        version |-> metadataVersion, nonce |-> nonce,
        body |-> [key |-> deriveMetadataKey(storageKey, dropID),
                  nonce |-> nonce, aad |-> dropID, json |-> json]]

NoPayload == [filename |-> <<>>, receipt |-> <<>>, timestamp_hour |-> 0,
              file_hash |-> <<>>]

\* The loadEncryptedMetadata of the first copy in metadata.go: what is not
\* an envelope of version > 0 goes to parseLegacyMetadata, which returns a
\* payload of the lines it recognises and never an error.
loadEncryptedMetadata_legacy_fallback(file, storageKey, dropID) ==
    IF file.kind = "none"
    THEN [ok |-> FALSE, payload |-> NoPayload]
    ELSE IF file.kind # "meta" \/ file.version <= 0
    THEN [ok |-> TRUE, payload |-> NoPayload]
    ELSE IF \/ file.body.key # deriveMetadataKey(storageKey, dropID)
            \/ file.body.nonce # file.nonce
            \/ file.body.aad # dropID
    THEN [ok |-> FALSE, payload |-> NoPayload]
    ELSE [ok |-> TRUE,
          payload |-> [filename       |-> jsonUnmarshalString(file.body.json.filename),
                       receipt        |-> file.body.json.receipt,
                       timestamp_hour |-> file.body.json.timestamp_hour,
                       file_hash      |-> file.body.json.file_hash]]

\* loadEncryptedMetadata: read, parse the envelope, reject version <= 0,
\* open with the per-drop key and the drop id as AAD, unmarshal.
loadEncryptedMetadata(file, storageKey, dropID) ==
    IF file.kind # "meta" \/ file.version <= 0
    THEN [ok |-> FALSE, payload |-> NoPayload]
    ELSE IF \/ file.body.key # deriveMetadataKey(storageKey, dropID)
            \/ file.body.nonce # file.nonce
            \/ file.body.aad # dropID
    THEN [ok |-> FALSE, payload |-> NoPayload]
    ELSE [ok |-> TRUE,
          payload |-> [filename       |-> jsonUnmarshalString(file.body.json.filename),
                       receipt        |-> file.body.json.receipt,
                       timestamp_hour |-> file.body.json.timestamp_hour,
                       file_hash      |-> file.body.json.file_hash]]

\* ReceiptManager.Generate: HMAC-SHA256 of the drop id under the secret.
Generate(secret, dropID) == <<"hmac", secret, dropID>>

\* A comparison that stops at the end of the shorter string.
ConstantTimeCompare_prefix(x, y) ==
    \A i \in 1..(IF Len(x) < Len(y) THEN Len(x) ELSE Len(y)) : x[i] = y[i]

ConstantTimeCompare(x, y) == x = y

\* ReceiptManager.Validate.
Validate(secret, dropID, receipt) ==
    ConstantTimeCompare(Generate(secret, dropID), receipt)

\* ValidateDropID: the ids of IDSeq stand for 32-character lowercase hex
\* strings; "ZZ" stands for a 32-character string that is not hex.
ValidateDropID(id) == id \in IDs

\* ------------------------------------------------------------------------
\* The storage root
\* ------------------------------------------------------------------------

\* Directory entries of a drop, in the order os.ReadDir returns them.
FileSeq == <<"data", "file.enc", "meta">>

FileNames == {FileSeq[k] : k \in 1..Len(FileSeq)}

NoDir == [dir |-> FALSE, files |-> [f \in FileNames |-> NoFile]]

\* What a goroutine remembers: the result of its storage call, the request
\* it serves (once its parameters have passed the checks), its response,
\* the drop it saved and the quota counters it read before saving it.
NoResult == [err |-> "unset", filename |-> <<>>, body |-> <<>>]

NoRequest == [id |-> "none", receipt |-> <<>>]

NoResponse == [code |-> 0, filename |-> <<>>, body |-> <<>>]

NoDrop == [id |-> "none", filename |-> <<>>, data |-> <<>>]

\* A key file (.encryption.key, .receipt.key): absent, 32 bytes of key, a
\* key wrapped under a master key, or bytes of another length.  wrap is the
\* master key a 60-byte file opens under (0 when it opens under none) and
\* purpose the additional data it was sealed with; master key 0 is the nil
\* master key.
NoPurpose == "nil"

NoKeyFile == [exists |-> FALSE, size |-> 0, wrap |-> 0, purpose |-> NoPurpose, key |-> 0]

\* The .honeypots file of the storage root: absent, or a JSON array of ids
\* (read into a set).
NoList == [exists |-> FALSE, ids |-> {}]

\* What the quota manager has been asked so far: bytes and number of the
\* successful Reserve calls (n, k), of the Release calls (m, j), all calls,
\* and whether a Reserve succeeded after some Release.
NoTally == [n |-> 0, m |-> 0, k |-> 0, j |-> 0, calls |-> 0, mixed |-> FALSE]

\* The names present in a drop directory, sorted.
Entries(d) ==
    LET present(k) == d.files[FileSeq[k]].kind # "none"
        F[k \in 0..Len(FileSeq)] ==
            IF k = 0 THEN <<>>
            ELSE IF present(k) THEN Append(F[k - 1], FileSeq[k]) ELSE F[k - 1]
    IN F[Len(FileSeq)]

\* The payload path GetDrop and DeleteDrop use: "data", or the legacy
\* "file.enc" when os.Stat says "data" does not exist.
PayloadName(d) == IF d.files["data"].kind # "none" THEN "data" ELSE "file.enc"

\* A Reserve that forgets the drop-count limit.
Reserve_bytes_only(q, bytes, maxBytes, maxDrops) ==
    IF maxBytes > 0 /\ q.totalBytes + bytes > maxBytes
    THEN [ok |-> FALSE, q |-> q]
    ELSE [ok |-> TRUE,
          q |-> [totalBytes |-> q.totalBytes + bytes, dropCount |-> q.dropCount + 1]]

\* QuotaManager.Reserve.
Reserve(q, bytes, maxBytes, maxDrops) ==
    IF maxBytes > 0 /\ q.totalBytes + bytes > maxBytes
    THEN [ok |-> FALSE, q |-> q]
    ELSE IF maxDrops > 0 /\ q.dropCount + 1 > maxDrops
    THEN [ok |-> FALSE, q |-> q]
    ELSE [ok |-> TRUE,
          q |-> [totalBytes |-> q.totalBytes + bytes, dropCount |-> q.dropCount + 1]]

\* A Release without the clamp at zero.
Release_unclamped(q, bytes) ==
    [totalBytes |-> q.totalBytes - bytes, dropCount |-> q.dropCount - 1]

\* QuotaManager.Release.
Release(q, bytes) ==
    [totalBytes |-> IF q.totalBytes - bytes < 0 THEN 0 ELSE q.totalBytes - bytes,
     dropCount  |-> IF q.dropCount - 1 < 0 THEN 0 ELSE q.dropCount - 1]

\* NewQuotaManager: the scan of the storage root that seeds the counters.
RECURSIVE ScanFrom(_, _)
ScanFrom(k, dsk) ==
    IF k > Len(IDSeq) THEN [totalBytes |-> 0, dropCount |-> 0]
    ELSE LET rest == ScanFrom(k + 1, dsk)
             d == dsk[IDSeq[k]]
         IN IF d.dir /\ d.files["file.enc"].kind # "none"
            THEN [totalBytes |-> rest.totalBytes + d.files["file.enc"].size,
                  dropCount |-> rest.dropCount + 1]
            ELSE rest

NewQuotaManager(dsk) == ScanFrom(1, dsk)

\* The drop directory SaveDrop leaves behind.
SavedDir(key, secret, id, filename, data, dataNonce, metaNonce, now) ==
    [dir |-> TRUE,
     files |-> [f \in FileNames |->
        CASE f = "data" -> EncryptStream(key, data, id, dataNonce)
          [] f = "meta" ->
               saveEncryptedMetadata(key, id,
                   [filename       |-> filename,
                    receipt        |-> Generate(secret, id),
                    timestamp_hour |-> roundToHour(now),
                    file_hash      |-> computeSHA256(data)],
                   metaNonce)
          [] OTHER -> NoFile]]

\* A drop of the legacy layout: its payload file is named "file.enc".
LegacyDir(d) ==
    [d EXCEPT !.files["file.enc"] = d.files["data"], !.files["data"] = NoFile]

\* ------------------------------------------------------------------------
\* sync.RWMutex and the lock table
\* ------------------------------------------------------------------------

ZeroRW == [w |-> FALSE, r |-> 0]

NoLock == [mode |-> "none", id |-> "none"]

\* Locals of a goroutine that is not running.
OffProc ==
    [pc |-> "off", lop |-> "none", lid |-> "none", ret |-> "none",
     ptr |-> 0, ok |-> FALSE, held |-> NoLock,
     sid |-> "none", sret |-> "none", res |-> NoResult, todo |-> <<>>,
     entries |-> <<>>,
     req |-> NoRequest, resp |-> NoResponse, trace |-> <<>>, mine |-> NoDrop,
     before |-> [totalBytes |-> 0, dropCount |-> 0]]

\* An instance is reachable when the map or some goroutine points to it.
Referenced(i, lk, p_s) ==
    \/ \E id \in IDs : lk[id] = i
    \/ \E q \in Procs : p_s[q].ptr = i

\* Pointer values carry no meaning of their own, so every state names its
\* instances the same way: the instance in the map entry of the k-th id is
\* k; an instance that is no longer in the map (garbage to the table, but
\* still pointed to) is named after the least goroutine pointing to it.
\* Unreachable instances are garbage and read as a zero RWMutex.
IdIndex(id) == CHOOSE k \in 1..Len(IDSeq) : IDSeq[k] = id

Name(i, lk, p_s) ==
    IF \E id \in IDs : lk[id] = i
    THEN IdIndex(CHOOSE id \in IDs : lk[id] = i)
    ELSE LET qs == {q \in Procs : p_s[q].ptr = i}
         IN Len(IDSeq) + 1 + (CHOOSE q \in qs : \A q2 \in qs : q <= q2)

Heap(r_w, lk, p_s) ==
    LET live == {i \in Inst : Referenced(i, lk, p_s)}
        name == [i \in live |-> Name(i, lk, p_s)]
    IN [rw    |-> [k \in Inst |->
                     IF \E i \in live : name[i] = k
                     THEN r_w[CHOOSE i \in live : name[i] = k]
                     ELSE ZeroRW],
        locks |-> [id \in IDs |-> IF lk[id] = 0 THEN 0 ELSE name[lk[id]]],
        ps    |-> [q \in Procs |->
                     IF p_s[q].ptr = 0 THEN p_s[q]
                     ELSE [p_s[q] EXCEPT !.ptr = name[p_s[q].ptr]]]]

\* The three heap variables after a step that leaves them as (r_w, lk, p_s).
SetHeap(r_w, lk, p_s) ==
    \E h \in {Heap(r_w, lk, p_s)} :
        /\ rw' = h.rw
        /\ locks' = h.locks
        /\ ps' = h.ps

\* A goroutine returns from a lock-table method to its caller.
Return(p, held) ==
    [ps[p] EXCEPT !.pc = ps[p].ret, !.ptr = 0, !.held = held,
                  !.lop = "none", !.lid = "none", !.ret = "none"]

\* Entry label of each lock-table method after its getLock call.
OpEntry(op) ==
    CASE op = "RLock"   -> "rlock"
      [] op = "RUnlock" -> "runlock"
      [] op = "Lock"    -> "lock"
      [] op = "Unlock"  -> "unlock"
      [] op = "TryLock" -> "trylock"

\* The caller p starts lock-table method op on id and continues at ret.
CallOn(rec, op, id, ret) ==
    [rec EXCEPT !.pc = "getLock", !.lop = op, !.lid = id, !.ret = ret]

Call(p, op, id, ret) == CallOn(ps[p], op, id, ret)

\* getLock, first half: lm.mu.Lock().
getLock_enter(p) ==
    /\ ~fatal
    /\ ps[p].pc = "getLock"
    /\ mu = Unlocked
    /\ mu' = p
    /\ ps' = [ps EXCEPT ![p].pc = "getLock_body"]
    /\ UNCHANGED <<locks, rw, fatal, storeVars>>

\* A getLock that returns the pointer without releasing lm.mu.
getLock_body_holding_mu(p) ==
    /\ ~fatal
    /\ ps[p].pc = "getLock_body"
    /\ LET id == ps[p].lid
           i  == IF locks[id] # 0 THEN locks[id] ELSE IdIndex(id)
       IN /\ locks' = [locks EXCEPT ![id] = i]
          /\ rw' = IF locks[id] # 0 THEN rw ELSE [rw EXCEPT ![i] = ZeroRW]
          /\ ps' = [ps EXCEPT ![p].ptr = i, ![p].pc = OpEntry(ps[p].lop)]
    /\ mu' = mu
    /\ UNCHANGED <<fatal, storeVars>>

\* getLock, second half: look the entry up, insert a new RWMutex when it is
\* missing, release lm.mu (deferred) and return the pointer.
getLock_body(p) ==
    /\ ~fatal
    /\ ps[p].pc = "getLock_body"
    /\ LET id == ps[p].lid
           i  == IF locks[id] # 0 THEN locks[id] ELSE IdIndex(id)
       IN /\ locks' = [locks EXCEPT ![id] = i]
          /\ rw' = IF locks[id] # 0 THEN rw ELSE [rw EXCEPT ![i] = ZeroRW]
          /\ ps' = [ps EXCEPT ![p].ptr = i, ![p].pc = OpEntry(ps[p].lop)]
    /\ mu' = Unlocked
    /\ UNCHANGED <<fatal, storeVars>>

getLock(p) == getLock_enter(p) \/ getLock_body(p)

\* RLock: getLock(dropID).RLock().  With a writer present the reader queues
\* on the instance and is released by that writer's Unlock.
RLock(p) ==
    /\ ~fatal
    /\ ps[p].pc = "rlock"
    /\ LET i == ps[p].ptr
       IN IF ~rw[i].w
          THEN SetHeap([rw EXCEPT ![i].r = @ + 1], locks,
                       [ps EXCEPT ![p] = Return(p, [mode |-> "r", id |-> ps[p].lid])])
          ELSE /\ ps' = [ps EXCEPT ![p].pc = "rlock_wait"]
               /\ UNCHANGED <<rw, locks>>
    /\ UNCHANGED <<mu, fatal, storeVars>>

\* Lock: getLock(dropID).Lock().  The writer announces itself (new readers
\* queue from now on) and owns the lock once no reader is left.
Lock_announce(p) ==
    /\ ~fatal
    /\ ps[p].pc = "lock"
    /\ LET i == ps[p].ptr
       IN /\ ~rw[i].w
          /\ IF rw[i].r = 0
             THEN SetHeap([rw EXCEPT ![i].w = TRUE], locks,
                          [ps EXCEPT ![p] = Return(p, [mode |-> "w", id |-> ps[p].lid])])
             ELSE /\ ps' = [ps EXCEPT ![p].pc = "lock_wait"]
                  /\ rw' = [rw EXCEPT ![i].w = TRUE]
                  /\ UNCHANGED locks
    /\ UNCHANGED <<mu, fatal, storeVars>>

Lock_acquire(p) ==
    /\ ~fatal
    /\ ps[p].pc = "lock_wait"
    /\ rw[ps[p].ptr].r = 0
    /\ SetHeap(rw, locks,
               [ps EXCEPT ![p] = Return(p, [mode |-> "w", id |-> ps[p].lid])])
    /\ UNCHANGED <<mu, fatal, storeVars>>

Lock(p) == Lock_announce(p) \/ Lock_acquire(p)

\* TryLock: getLock(dropID).TryLock(); never waits.
TryLock(p) ==
    /\ ~fatal
    /\ ps[p].pc = "trylock"
    /\ LET i   == ps[p].ptr
           got == ~rw[i].w /\ rw[i].r = 0
       IN SetHeap(IF got THEN [rw EXCEPT ![i].w = TRUE] ELSE rw, locks,
                  [ps EXCEPT ![p] =
                      [Return(p, IF got THEN [mode |-> "w", id |-> ps[p].lid]
                                        ELSE NoLock)
                         EXCEPT !.ok = got]])
    /\ UNCHANGED <<mu, fatal, storeVars>>

\* RUnlock: getLock(dropID).RUnlock().  RUnlock of an instance that has no
\* reader is a fatal run-time error.
RUnlock(p) ==
    /\ ~fatal
    /\ ps[p].pc = "runlock"
    /\ LET i == ps[p].ptr
       IN IF rw[i].r = 0
          THEN /\ fatal' = TRUE
               /\ UNCHANGED <<ps, rw, locks>>
          ELSE /\ SetHeap([rw EXCEPT ![i].r = @ - 1], locks,
                          [ps EXCEPT ![p] = Return(p, NoLock)])
               /\ fatal' = fatal
    /\ UNCHANGED <<mu, storeVars>>

\* The readers queued on instance i.
Queued(i) == {q \in Procs : ps[q].pc = "rlock_wait" /\ ps[q].ptr = i}

\* Unlock, first part: getLock(dropID).Unlock().  Unlock of an instance that
\* is not write-locked is a fatal run-time error; otherwise every queued
\* reader becomes a holder.
Unlock_release(p) ==
    /\ ~fatal
    /\ ps[p].pc = "unlock"
    /\ LET i == ps[p].ptr
       IN IF ~rw[i].w
          THEN /\ fatal' = TRUE
               /\ UNCHANGED <<ps, rw, locks>>
          ELSE LET woken == Queued(i)
                   np == [q \in Procs |->
                            IF q = p
                            THEN [ps[q] EXCEPT !.pc = "unlock_mu", !.ptr = 0,
                                               !.held = NoLock]
                            ELSE IF q \in woken
                            THEN Return(q, [mode |-> "r", id |-> ps[q].lid])
                            ELSE ps[q]]
                   nr == [rw EXCEPT ![i] = [w |-> FALSE,
                                            r |-> rw[i].r + Cardinality(woken)]]
               IN /\ SetHeap(nr, locks, np)
                  /\ fatal' = fatal
    /\ UNCHANGED <<mu, storeVars>>

\* Unlock, second part: lm.mu.Lock(); delete(lm.locks, dropID); lm.mu.Unlock().
Unlock_enter(p) ==
    /\ ~fatal
    /\ ps[p].pc = "unlock_mu"
    /\ mu = Unlocked
    /\ mu' = p
    /\ ps' = [ps EXCEPT ![p].pc = "unlock_del"]
    /\ UNCHANGED <<locks, rw, fatal, storeVars>>

Unlock_delete(p) ==
    /\ ~fatal
    /\ ps[p].pc = "unlock_del"
    /\ SetHeap(rw, [locks EXCEPT ![ps[p].lid] = 0],
               [ps EXCEPT ![p] = Return(p, NoLock)])
    /\ mu' = Unlocked
    /\ UNCHANGED <<fatal, storeVars>>

Unlock(p) == Unlock_release(p) \/ Unlock_enter(p) \/ Unlock_delete(p)

\* One step of whatever lock-table method goroutine p is inside.
LockTable(p) ==
    \/ getLock(p)
    \/ RLock(p)
    \/ Lock(p)
    \/ TryLock(p)
    \/ RUnlock(p)
    \/ Unlock(p)

\* ------------------------------------------------------------------------
\* Storage manager (internal/storage/storage.go)
\* ------------------------------------------------------------------------

\* The caller starts GetDrop(id) and continues at sret: the id is validated
\* and m.Locks.RLock(id) is called, its RUnlock deferred.
GetDrop_enter(rec, id, sret) ==
    IF ~ValidateDropID(id)
    THEN [rec EXCEPT !.pc = sret, !.res = [NoResult EXCEPT !.err = "invalid"]]
    ELSE CallOn([rec EXCEPT !.sid = id, !.sret = sret, !.res = NoResult],
                "RLock", id, "GetDrop_meta")

\* A DeleteDrop that validates the cleaned path (filepath.Clean) in place of
\* the identifier it was given.
DeleteDrop_enter_cleaned_path(rec, id, sret) ==
    LET clean == IF id = "b/../a" THEN "a" ELSE id
    IN IF ~ValidateDropID(clean)
       THEN [rec EXCEPT !.pc = sret, !.res = [NoResult EXCEPT !.err = "invalid"]]
       ELSE CallOn([rec EXCEPT !.sid = clean, !.sret = sret, !.res = NoResult],
                   "Lock", clean, "DeleteDrop_quota")

\* The caller starts DeleteDrop(id) and continues at sret: the id is
\* validated and m.Locks.Lock(id) is called, its Unlock deferred.
DeleteDrop_enter(rec, id, sret) ==
    IF ~ValidateDropID(id)
    THEN [rec EXCEPT !.pc = sret, !.res = [NoResult EXCEPT !.err = "invalid"]]
    ELSE CallOn([rec EXCEPT !.sid = id, !.sret = sret, !.res = NoResult],
                "Lock", id, "DeleteDrop_quota")

\* The storage method of p ends with result res: its deferred unlock runs
\* and control returns to the caller.
Leave(rec, unlock, res) ==
    [CallOn(rec, unlock, rec.sid, rec.sret)
        EXCEPT !.res = res, !.sid = "none", !.sret = "none", !.todo = <<>>]

\* SaveDrop, as one step, for callers none of which lists the storage root:
\* the id is new, so no other caller can name the directory before SaveDrop
\* returns.
SaveDrop(p, filename, data, dataNonce, metaNonce) ==
    /\ env.issued # IDs
    /\ LET id == CHOOSE i \in IDs \ env.issued :
                    \A j \in IDs \ env.issued : IdIndex(i) <= IdIndex(j)
           rsv == Reserve(quota, Len(data), env.maxBytes, env.maxDrops)
       IN /\ env' = [env EXCEPT !.issued = @ \cup {id}]
          /\ IF ~rsv.ok
             THEN /\ ps' = [ps EXCEPT ![p].res = [NoResult EXCEPT !.err = "quota"],
                                      ![p].mine = NoDrop]
                  /\ UNCHANGED <<disk, quota>>
             ELSE /\ quota' = rsv.q
                  /\ disk' = [disk EXCEPT ![id] =
                                 SavedDir(env.key, env.secret, id, filename, data,
                                          dataNonce, metaNonce, env.now)]
                  /\ ps' = [ps EXCEPT ![p].res = [NoResult EXCEPT !.err = "none"],
                                      ![p].mine = [id |-> id, filename |-> filename,
                                                   data |-> data]]
    /\ UNCHANGED lockVars

\* SaveDrop up to io.ReadAll when generateID has returned id: os.MkdirAll
\* creates the directory, or finds it and reports no error.
SaveDrop_mkdir_as(p, id, filename, data, sret) ==
    /\ env' = [env EXCEPT !.issued = @ \cup {id}]
    /\ disk' = [disk EXCEPT ![id].dir = TRUE]
    /\ ps' = [ps EXCEPT ![p].pc = "SaveDrop_reserve",
                        ![p].sid = id, ![p].sret = sret,
                        ![p].res = NoResult,
                        ![p].before = quota,
                        ![p].mine = [id |-> id, filename |-> filename,
                                     data |-> data]]
    /\ UNCHANGED <<lockVars, quota>>

\* SaveDrop step by step, for callers that share the storage root with
\* other goroutines.  generateID, Receipts.Generate, os.MkdirAll and
\* io.ReadAll: the caller continues at sret when SaveDrop returns.
SaveDrop_mkdir(p, filename, data, sret) ==
    /\ env.issued # IDs
    /\ LET id == CHOOSE i \in IDs \ env.issued :
                    \A j \in IDs \ env.issued : IdIndex(i) <= IdIndex(j)
       IN SaveDrop_mkdir_as(p, id, filename, data, sret)

\* SaveDrop: m.Quota.Reserve(len(data)); on refusal os.Remove(dropDir),
\* which removes the directory if it is empty.
SaveDrop_reserve(p) ==
    /\ ~fatal
    /\ ps[p].pc = "SaveDrop_reserve"
    /\ LET id  == ps[p].sid
           rsv == Reserve(quota, Len(ps[p].mine.data), env.maxBytes, env.maxDrops)
       IN IF ~rsv.ok
          THEN /\ disk' = IF disk[id].dir /\ Entries(disk[id]) = <<>>
                          THEN [disk EXCEPT ![id] = NoDir] ELSE disk
               /\ quota' = quota
               /\ ps' = [ps EXCEPT ![p].pc = ps[p].sret,
                                   ![p].sid = "none", ![p].sret = "none",
                                   ![p].res = [NoResult EXCEPT !.err = "quota"],
                                   ![p].mine = NoDrop]
          ELSE /\ quota' = rsv.q
               /\ disk' = disk
               /\ ps' = [ps EXCEPT ![p].pc = "SaveDrop_data"]
    /\ UNCHANGED <<lockVars, env>>

\* SaveDrop: os.OpenFile(dropDir/data, O_CREATE|O_WRONLY) and EncryptStream
\* with the id as AAD.
SaveDrop_data(p, dataNonce) ==
    /\ ~fatal
    /\ ps[p].pc = "SaveDrop_data"
    /\ LET id == ps[p].sid
       IN IF ~disk[id].dir
          THEN /\ disk' = disk
               /\ ps' = [ps EXCEPT ![p].pc = ps[p].sret,
                                   ![p].sid = "none", ![p].sret = "none",
                                   ![p].res = [NoResult EXCEPT !.err = "create"],
                                   ![p].mine = NoDrop]
          ELSE /\ disk' = [disk EXCEPT ![id].files["data"] =
                              EncryptStream(env.key, ps[p].mine.data, id, dataNonce)]
               /\ ps' = [ps EXCEPT ![p].pc = "SaveDrop_meta"]
    /\ UNCHANGED <<lockVars, quota, env>>

\* SaveDrop: saveEncryptedMetadata(dropDir/meta, ...) and return of the Drop.
SaveDrop_meta(p, metaNonce) ==
    /\ ~fatal
    /\ ps[p].pc = "SaveDrop_meta"
    /\ LET id == ps[p].sid
       IN IF ~disk[id].dir
          THEN /\ disk' = disk
               /\ ps' = [ps EXCEPT ![p].pc = ps[p].sret,
                                   ![p].sid = "none", ![p].sret = "none",
                                   ![p].res = [NoResult EXCEPT !.err = "meta"],
                                   ![p].mine = NoDrop]
          ELSE /\ disk' = [disk EXCEPT ![id].files["meta"] =
                              saveEncryptedMetadata(env.key, id,
                                  [filename       |-> ps[p].mine.filename,
                                   receipt        |-> Generate(env.secret, id),
                                   timestamp_hour |-> roundToHour(env.now),
                                   file_hash      |-> computeSHA256(ps[p].mine.data)],
                                  metaNonce)]
               /\ ps' = [ps EXCEPT ![p].pc = ps[p].sret,
                                   ![p].sid = "none", ![p].sret = "none",
                                   ![p].res = [NoResult EXCEPT !.err = "none"]]
    /\ UNCHANGED <<lockVars, quota, env>>

\* SaveDrop returns the error of a failed step: io.ReadAll of the upload,
\* os.OpenFile or EncryptStream of the payload (which may have written part
\* of it), or saveEncryptedMetadata.  Each is a plain return.
SaveDrop_fails(p) ==
    /\ ~fatal
    /\ ps[p].pc \in {"SaveDrop_reserve", "SaveDrop_data", "SaveDrop_meta"}
    /\ LET id == ps[p].sid
       IN \E err \in CASE ps[p].pc = "SaveDrop_reserve" -> {"read"}
                       [] ps[p].pc = "SaveDrop_data" -> {"create", "encrypt"}
                       [] OTHER -> {"meta"} :
             /\ disk' = IF err = "encrypt" /\ disk[id].dir
                        THEN [disk EXCEPT ![id].files["data"] = Junk(NonceSize)]
                        ELSE disk
             /\ ps' = [ps EXCEPT ![p].pc = ps[p].sret,
                                 ![p].sid = "none", ![p].sret = "none",
                                 ![p].res = [NoResult EXCEPT !.err = err],
                                 ![p].mine = NoDrop]
    /\ UNCHANGED <<lockVars, quota, env>>

\* GetDrop: loadEncryptedMetadata(metaPath, m.EncryptionKey, id).
GetDrop_meta(p) ==
    /\ ~fatal
    /\ ps[p].pc = "GetDrop_meta"
    /\ LET id == ps[p].sid
           m  == loadEncryptedMetadata(disk[id].files["meta"], env.key, id)
       IN IF ~m.ok
          THEN ps' = [ps EXCEPT ![p] =
                        Leave(ps[p], "RUnlock", [NoResult EXCEPT !.err = "notfound"])]
          ELSE ps' = [ps EXCEPT ![p].pc = "GetDrop_data",
                                ![p].res = [NoResult EXCEPT !.filename = m.payload.filename]]
    /\ UNCHANGED <<lockVars, storeVars>>

\* A GetDrop that hands the reader back without running the RUnlock.
GetDrop_data_keeping_lock(p) ==
    /\ ~fatal
    /\ ps[p].pc = "GetDrop_data"
    /\ LET id   == ps[p].sid
           file == disk[id].files[PayloadName(disk[id])]
           dec  == DecryptStream(env.key, file, id)
           res  == IF file.kind = "none" THEN [NoResult EXCEPT !.err = "open"]
                   ELSE IF ~dec.ok THEN [NoResult EXCEPT !.err = "decrypt"]
                   ELSE [err |-> "none", filename |-> ps[p].res.filename,
                         body |-> dec.pt]
       IN ps' = [ps EXCEPT ![p] = [ps[p] EXCEPT !.pc = ps[p].sret, !.res = res,
                                        !.sid = "none", !.sret = "none"]]
    /\ UNCHANGED <<lockVars, storeVars>>

\* GetDrop: stat "data" (else "file.enc"), open it and decrypt it into a
\* buffer; the deferred RUnlock runs as GetDrop returns the buffer.
GetDrop_data(p) ==
    /\ ~fatal
    /\ ps[p].pc = "GetDrop_data"
    /\ LET id   == ps[p].sid
           file == disk[id].files[PayloadName(disk[id])]
           dec  == DecryptStream(env.key, file, id)
           res  == IF file.kind = "none" THEN [NoResult EXCEPT !.err = "open"]
                   ELSE IF ~dec.ok THEN [NoResult EXCEPT !.err = "decrypt"]
                   ELSE [err |-> "none", filename |-> ps[p].res.filename,
                         body |-> dec.pt]
       IN ps' = [ps EXCEPT ![p] = Leave(ps[p], "RUnlock", res)]
    /\ UNCHANGED <<lockVars, storeVars>>

GetDrop(p) == GetDrop_meta(p) \/ GetDrop_data(p)

\* A GetDropMetadata that answers unreadable metadata with the zero payload
\* and no error.
GetDropMetadata_zero_payload(id) ==
    IF ~ValidateDropID(id)
    THEN [ok |-> FALSE, err |-> "invalid", payload |-> NoPayload]
    ELSE LET m == loadEncryptedMetadata(disk[id].files["meta"], env.key, id)
         IN [ok |-> TRUE, err |-> "none", payload |-> m.payload]

\* GetDropMetadata: no lock is taken.
GetDropMetadata(id) ==
    IF ~ValidateDropID(id)
    THEN [ok |-> FALSE, err |-> "invalid", payload |-> NoPayload]
    ELSE LET m == loadEncryptedMetadata(disk[id].files["meta"], env.key, id)
         IN [ok |-> m.ok, err |-> IF m.ok THEN "none" ELSE "notfound",
             payload |-> m.payload]

\* DeleteDrop: stat the payload file and release its size from the quota.
DeleteDrop_quota(p) ==
    /\ ~fatal
    /\ ps[p].pc = "DeleteDrop_quota"
    /\ LET d    == disk[ps[p].sid]
           file == d.files[PayloadName(d)]
       IN quota' = IF file.kind # "none" THEN Release(quota, file.size) ELSE quota
    /\ ps' = [ps EXCEPT ![p].pc = IF env.secureDelete THEN "SecureDeleteDir"
                                                       ELSE "RemoveAll"]
    /\ UNCHANGED <<lockVars, disk, env>>

\* SecureDeleteDir: os.ReadDir; a missing directory is success.
SecureDeleteDir_readdir(p) ==
    /\ ~fatal
    /\ ps[p].pc = "SecureDeleteDir"
    /\ LET d == disk[ps[p].sid]
       IN IF ~d.dir
          THEN ps' = [ps EXCEPT ![p] =
                        Leave(ps[p], "Unlock", [NoResult EXCEPT !.err = "none"])]
          ELSE ps' = [ps EXCEPT ![p].todo = Entries(d),
                                ![p].pc = IF Entries(d) = <<>> THEN "SecureDeleteDir_rmdir"
                                                               ELSE "SecureDelete"]
    /\ UNCHANGED <<lockVars, storeVars>>

\* SecureDelete of the next entry: stat, then the three overwrite passes
\* (an empty file is removed at once).
SecureDelete_overwrite(p) ==
    /\ ~fatal
    /\ ps[p].pc = "SecureDelete"
    /\ LET id   == ps[p].sid
           f    == Head(ps[p].todo)
           file == disk[id].files[f]
           rest == Tail(ps[p].todo)
       IN IF file.kind = "none"
          THEN /\ ps' = [ps EXCEPT ![p] =
                           Leave(ps[p], "Unlock", [NoResult EXCEPT !.err = "stat"])]
               /\ disk' = disk
          ELSE IF file.size = 0
          THEN /\ disk' = [disk EXCEPT ![id].files[f] = NoFile]
               /\ ps' = [ps EXCEPT ![p].todo = rest,
                                   ![p].pc = IF rest = <<>> THEN "SecureDeleteDir_rmdir"
                                                            ELSE "SecureDelete"]
          ELSE /\ disk' = [disk EXCEPT ![id].files[f] = Junk(file.size)]
               /\ ps' = [ps EXCEPT ![p].pc = "SecureDelete_remove"]
    /\ UNCHANGED <<lockVars, quota, env>>

\* SecureDelete: os.Remove(path) after the passes.
SecureDelete_remove(p) ==
    /\ ~fatal
    /\ ps[p].pc = "SecureDelete_remove"
    /\ LET id   == ps[p].sid
           f    == Head(ps[p].todo)
           rest == Tail(ps[p].todo)
       IN IF disk[id].files[f].kind = "none"
          THEN /\ ps' = [ps EXCEPT ![p] =
                           Leave(ps[p], "Unlock", [NoResult EXCEPT !.err = "remove"])]
               /\ disk' = disk
          ELSE /\ disk' = [disk EXCEPT ![id].files[f] = NoFile]
               /\ ps' = [ps EXCEPT ![p].todo = rest,
                                   ![p].pc = IF rest = <<>> THEN "SecureDeleteDir_rmdir"
                                                            ELSE "SecureDelete"]
    /\ UNCHANGED <<lockVars, quota, env>>

\* SecureDeleteDir: os.Remove(dir), which fails on a missing or non-empty
\* directory.
SecureDeleteDir_rmdir(p) ==
    /\ ~fatal
    /\ ps[p].pc = "SecureDeleteDir_rmdir"
    /\ LET id == ps[p].sid
           d  == disk[id]
       IN IF ~d.dir \/ Entries(d) # <<>>
          THEN /\ ps' = [ps EXCEPT ![p] =
                           Leave(ps[p], "Unlock", [NoResult EXCEPT !.err = "rmdir"])]
               /\ disk' = disk
          ELSE /\ disk' = [disk EXCEPT ![id] = NoDir]
               /\ ps' = [ps EXCEPT ![p] =
                           Leave(ps[p], "Unlock", [NoResult EXCEPT !.err = "none"])]
    /\ UNCHANGED <<lockVars, quota, env>>

SecureDeleteDir(p) ==
    \/ SecureDeleteDir_readdir(p)
    \/ SecureDelete_overwrite(p)
    \/ SecureDelete_remove(p)
    \/ SecureDeleteDir_rmdir(p)

\* os.RemoveAll: unlink the entries one by one, then the directory; missing
\* entries are not an error.
RemoveAll(p) ==
    /\ ~fatal
    /\ ps[p].pc = "RemoveAll"
    /\ LET id == ps[p].sid
           d  == disk[id]
       IN IF d.dir /\ Entries(d) # <<>>
          THEN /\ disk' = [disk EXCEPT ![id].files[Head(Entries(d))] = NoFile]
               /\ ps' = ps
          ELSE /\ disk' = [disk EXCEPT ![id] = NoDir]
               /\ ps' = [ps EXCEPT ![p] =
                           Leave(ps[p], "Unlock", [NoResult EXCEPT !.err = "none"])]
    /\ UNCHANGED <<lockVars, quota, env>>

DeleteDrop(p) ==
    \/ DeleteDrop_quota(p)
    \/ SecureDeleteDir(p)
    \/ RemoveAll(p)

\* ------------------------------------------------------------------------
\* The retrieve handler (cmd/dead-drop-server: handleRetrieve)
\* ------------------------------------------------------------------------

Handlers == 1..MaxHandlers

\* Query values of "id": the drops, a 32-character string that is not hex,
\* a string of another length, and the empty string.
RequestIDs == IDs \cup {"ZZ", "short", ""}

IDLen(id) == IF id = "" THEN 0 ELSE IF id = "short" THEN 5 ELSE 32

\* Query values of "receipt": the right one, a wrong one, and none.
RequestReceipts(id) == {Generate(env.secret, id), <<"bad">>, <<>>}

\* honeypot.Manager.IsHoneypot; a server without honeypots has no manager.
IsHoneypot(id) == id \in env.hp

\* filepath.Base on a name without separators.
Base(filename) == IF filename = <<>> THEN <<".">> ELSE filename

Finish(rec, code) == [rec EXCEPT !.pc = "done", !.resp.code = code]

\* A handler that raises the honeypot alert before it validates the receipt.
handleRetrieve_begin_alert_first(p) ==
    /\ ~fatal
    /\ ps[p].pc = "handleRetrieve"
    /\ \A q \in 1..(p - 1) : ps[q].pc # "handleRetrieve"
    /\ \E id \in RequestIDs : \E receipt \in RequestReceipts(id) :
          LET rec == [ps[p] EXCEPT !.req = [id |-> id, receipt |-> receipt]]
              alerted == IF IsHoneypot(id)
                         THEN [rec EXCEPT !.trace = <<"alert">>]
                         ELSE rec
              validated == [alerted EXCEPT !.trace = Append(@, "validate")]
          IN ps' = [ps EXCEPT ![p] =
                IF id = "" \/ receipt = <<>> THEN Finish(ps[p], 400)
                ELSE IF IDLen(id) # 32 THEN Finish(ps[p], 400)
                ELSE IF ~Validate(env.secret, id, receipt) THEN Finish(validated, 403)
                ELSE GetDrop_enter([validated EXCEPT !.trace = Append(@, "get")],
                                   id, "handleRetrieve_copy")]
    /\ UNCHANGED <<lockVars, storeVars>>

\* handleRetrieve up to its call of GetDrop: the parameter checks, the
\* receipt validation, the honeypot alert.  Requests are numbered in their
\* order of arrival.
handleRetrieve_begin(p) ==
    /\ ~fatal
    /\ ps[p].pc = "handleRetrieve"
    /\ \A q \in 1..(p - 1) : ps[q].pc # "handleRetrieve"
    /\ \E id \in RequestIDs : \E receipt \in RequestReceipts(id) :
          LET rec == [ps[p] EXCEPT !.req = [id |-> id, receipt |-> receipt]]
              validated == [rec EXCEPT !.trace = <<"validate">>]
              alerted == IF IsHoneypot(id)
                         THEN [validated EXCEPT !.trace = Append(@, "alert")]
                         ELSE validated
          IN ps' = [ps EXCEPT ![p] =
                IF id = "" \/ receipt = <<>> THEN Finish(ps[p], 400)
                ELSE IF IDLen(id) # 32 THEN Finish(ps[p], 400)
                ELSE IF ~Validate(env.secret, id, receipt) THEN Finish(validated, 403)
                ELSE GetDrop_enter([alerted EXCEPT !.trace = Append(@, "get")],
                                   id, "handleRetrieve_copy")]
    /\ UNCHANGED <<lockVars, storeVars>>

\* handleRetrieve after GetDrop has returned: 404 on error; otherwise the
\* headers and io.Copy of the reader to the response, then DeleteDrop when
\* delete_after_retrieve is set.
handleRetrieve_copy(p) ==
    /\ ~fatal
    /\ ps[p].pc = "handleRetrieve_copy"
    /\ IF ps[p].res.err # "none"
       THEN ps' = [ps EXCEPT ![p] = Finish(ps[p], 404)]
       ELSE LET sent == [ps[p] EXCEPT !.resp = [code |-> 200,
                                                filename |-> Base(ps[p].res.filename),
                                                body |-> ps[p].res.body]]
            IN ps' = [ps EXCEPT ![p] =
                  IF env.deleteAfterRetrieve
                  THEN DeleteDrop_enter(sent, ps[p].req.id, "done")
                  ELSE [sent EXCEPT !.pc = "done"]]
    /\ UNCHANGED <<lockVars, storeVars>>

handleRetrieve(p) == handleRetrieve_begin(p) \/ handleRetrieve_copy(p)

\* ------------------------------------------------------------------------
\* The cleanup worker (internal/storage/metadata.go: cleanupExpiredDrops)
\* ------------------------------------------------------------------------

\* os.ReadDir(m.StorageDir): the drop directories, sorted by name.
ReadDir ==
    LET F[k \in 0..Len(IDSeq)] ==
            IF k = 0 THEN <<>>
            ELSE IF disk[IDSeq[k]].dir THEN Append(F[k - 1], IDSeq[k]) ELSE F[k - 1]
    IN F[Len(IDSeq)]

\* A sweep starts (a tick of the cleanup ticker).
cleanup_readdir ==
    /\ ~fatal
    /\ ps[Cleaner].pc = "cleanup"
    /\ ps' = [ps EXCEPT ![Cleaner].entries = ReadDir, ![Cleaner].pc = "cleanup_next"]
    /\ UNCHANGED <<lockVars, storeVars>>

\* A sweep that does not consult m.IsProtected.
cleanup_next_unprotected ==
    /\ ~fatal
    /\ ps[Cleaner].pc = "cleanup_next"
    /\ LET es == ps[Cleaner].entries
       IN IF es = <<>>
          THEN ps' = [ps EXCEPT ![Cleaner].pc = "cleanup"]
          ELSE ps' = [ps EXCEPT ![Cleaner] =
                        CallOn([ps[Cleaner] EXCEPT !.entries = Tail(es),
                                                   !.sid = Head(es)],
                               "TryLock", Head(es), "cleanup_tried")]
    /\ UNCHANGED <<lockVars, storeVars>>

\* Top of the loop body: protected drops are skipped, the others try-locked.
cleanup_next ==
    /\ ~fatal
    /\ ps[Cleaner].pc = "cleanup_next"
    /\ LET es == ps[Cleaner].entries
       IN IF es = <<>>
          THEN ps' = [ps EXCEPT ![Cleaner].pc = "cleanup"]
          ELSE IF IsHoneypot(Head(es))
          THEN ps' = [ps EXCEPT ![Cleaner].entries = Tail(es)]
          ELSE ps' = [ps EXCEPT ![Cleaner] =
                        CallOn([ps[Cleaner] EXCEPT !.entries = Tail(es),
                                                   !.sid = Head(es)],
                               "TryLock", Head(es), "cleanup_tried")]
    /\ UNCHANGED <<lockVars, storeVars>>

\* A failed TryLock skips the drop; a successful one is released at once.
cleanup_tried ==
    /\ ~fatal
    /\ ps[Cleaner].pc = "cleanup_tried"
    /\ IF ~ps[Cleaner].ok
       THEN ps' = [ps EXCEPT ![Cleaner].pc = "cleanup_next", ![Cleaner].sid = "none"]
       ELSE ps' = [ps EXCEPT ![Cleaner] =
                     CallOn([ps[Cleaner] EXCEPT !.ok = FALSE],
                            "Unlock", ps[Cleaner].sid, "cleanup_meta")]
    /\ UNCHANGED <<lockVars, storeVars>>

\* A sweep that also deletes the drops whose age equals the maximum age.
cleanup_meta_at_max_age ==
    /\ ~fatal
    /\ ps[Cleaner].pc = "cleanup_meta"
    /\ LET id == ps[Cleaner].sid
           m  == GetDropMetadata(id)
       IN IF m.ok /\ env.now - m.payload.timestamp_hour >= env.maxAge
          THEN ps' = [ps EXCEPT ![Cleaner] =
                        DeleteDrop_enter(ps[Cleaner], id, "cleanup_next")]
          ELSE ps' = [ps EXCEPT ![Cleaner].pc = "cleanup_next", ![Cleaner].sid = "none"]
    /\ UNCHANGED <<lockVars, storeVars>>

\* GetDropMetadata (no lock held), the age test, and the call of DeleteDrop.
cleanup_meta ==
    /\ ~fatal
    /\ ps[Cleaner].pc = "cleanup_meta"
    /\ LET id == ps[Cleaner].sid
           m  == GetDropMetadata(id)
       IN IF m.ok /\ env.now - m.payload.timestamp_hour > env.maxAge
          THEN ps' = [ps EXCEPT ![Cleaner] =
                        DeleteDrop_enter(ps[Cleaner], id, "cleanup_next")]
          ELSE ps' = [ps EXCEPT ![Cleaner].pc = "cleanup_next", ![Cleaner].sid = "none"]
    /\ UNCHANGED <<lockVars, storeVars>>

cleanupExpiredDrops ==
    \/ cleanup_readdir
    \/ cleanup_next
    \/ cleanup_tried
    \/ cleanup_meta

\* One step of whatever storage method goroutine p is inside.
Storage(p) == GetDrop(p) \/ DeleteDrop(p)

\* ------------------------------------------------------------------------
\* Direct callers of the lock table (as in the lock-manager tests)
\* ------------------------------------------------------------------------

Lockers == 1..NumLockers

LockerAcquire(p) ==
    /\ ~fatal
    /\ ps[p].pc = "idle"
    /\ \E id \in IDs :
          \/ ps' = [ps EXCEPT ![p] = Call(p, "RLock", id, "heldR")]
          \/ ps' = [ps EXCEPT ![p] = Call(p, "Lock", id, "heldW")]
          \/ ps' = [ps EXCEPT ![p] = Call(p, "TryLock", id, "tried")]
    /\ UNCHANGED <<lockVars, storeVars>>

LockerTried(p) ==
    /\ ~fatal
    /\ ps[p].pc = "tried"
    /\ ps' = [ps EXCEPT ![p].pc = IF ps[p].ok THEN "heldW" ELSE "idle",
                         ![p].ok = FALSE]
    /\ UNCHANGED <<lockVars, storeVars>>

LockerRelease(p) ==
    /\ ~fatal
    /\ \/ /\ ps[p].pc = "heldR"
          /\ ps' = [ps EXCEPT ![p] = Call(p, "RUnlock", ps[p].held.id, "idle")]
       \/ /\ ps[p].pc = "heldW"
          /\ ps' = [ps EXCEPT ![p] = Call(p, "Unlock", ps[p].held.id, "idle")]
    /\ UNCHANGED <<lockVars, storeVars>>

InitLockTable ==
    /\ mu = Unlocked
    /\ locks = [id \in IDs |-> 0]
    /\ rw = [i \in Inst |-> ZeroRW]
    /\ fatal = FALSE

\* The key rotation tool has not run.  Of a run these are kept: the two
\* master keys, the two encryption keys, how it ended and the storage root
\* it found.
NoTool == [ran |-> FALSE]

\* The configuration and the keys of a running server.
Config(hp, deleteAfterRetrieve, secureDelete, issued) ==
    [key |-> 1, secret |-> 2, hp |-> hp,
     deleteAfterRetrieve |-> deleteAfterRetrieve, secureDelete |-> secureDelete,
     now |-> NowHours * TicksPerHour, maxAge |-> MaxAgeHours * TicksPerHour,
     issued |-> issued, maxBytes |-> MaxStorageBytes, maxDrops |-> MaxDrops,
     tally |-> NoTally, list |-> NoList, keyfile |-> NoKeyFile,
     receiptfile |-> NoKeyFile, master |-> 0, tool |-> NoTool]

InitLocks ==
    /\ InitLockTable
    /\ disk = [id \in IDs |-> NoDir]
    /\ quota = [totalBytes |-> 0, dropCount |-> 0]
    /\ env = Config({}, FALSE, TRUE, {})
    /\ ps = [p \in Procs |-> IF p \in Lockers
                             THEN [OffProc EXCEPT !.pc = "idle"]
                             ELSE OffProc]

NextLocks ==
    \E p \in Lockers :
        \/ LockTable(p)
        \/ LockerAcquire(p)
        \/ LockerTried(p)
        \/ LockerRelease(p)

SpecLocks == InitLocks /\ [][NextLocks]_vars

\* Goroutine p is between a successful acquisition on id and its release.
Holds(p, id) == ps[p].held.id = id

HoldsWrite(p, id) == ps[p].held = [mode |-> "w", id |-> id]

HoldsRead(p, id) == ps[p].held = [mode |-> "r", id |-> id]

\* C3: while one caller holds the write lock of a drop id, no other caller
\* holds a read or a write lock on that id (readers may share).
C3_WriteLockExcludes ==
    \A p \in Procs : \A q \in Procs \ {p} : \A id \in IDs :
        HoldsWrite(p, id) => ~Holds(q, id)

\* C7: a TryLock that returns true found no other caller holding a lock on
\* the id; it returns false whenever some caller holds one.
C7_TryLockSeesHolders ==
    [][\A p \in Procs :
          (ps[p].pc = "trylock" /\ ps'[p].pc # "trylock" /\ ps'[p].ok)
              => \A q \in Procs \ {p} : ~Holds(q, ps[p].lid)]_vars

\* C28: the instance a caller that holds a read lock hands to RUnlock is
\* read-locked: it is the instance its RLock acquired, whatever Unlock has
\* completed since.
C28_RUnlockSameInstance ==
    \A p \in Procs : ps[p].pc = "runlock" => rw[ps[p].ptr].r > 0

\* Goroutine p is inside a blocking RWMutex call that cannot return yet.
Waiting(p) ==
    \/ ps[p].pc \in {"rlock_wait", "lock_wait"}
    \/ ps[p].pc = "lock" /\ rw[ps[p].ptr].w
    \/ ps[p].pc = "rlock" /\ rw[ps[p].ptr].w

\* C9: locks of different ids are different RWMutex values, so what is held
\* on one id cannot delay a caller on another id, and lm.mu is held only
\* across the map access of getLock and Unlock, never while a goroutine
\* waits for (or holds) a drop lock.
C9_IdsIndependent ==
    /\ \A p \in Procs : \A q \in Procs :
          (ps[p].ptr # 0 /\ ps[p].ptr = ps[q].ptr) => ps[p].lid = ps[q].lid
    /\ \A p \in Procs : \A id \in IDs :
          (ps[p].ptr # 0 /\ ps[p].ptr = locks[id]) => ps[p].lid = id
    /\ \A p \in Procs :
          mu = p => /\ ps[p].pc \in {"getLock_body", "unlock_del"}
                    /\ ~Waiting(p)
    /\ \A p \in Procs : Waiting(p) => mu # p

\* A writer on the first id and, at the same time, a writer on the second.
C9_Witness ==
    \E p \in Procs : \E q \in Procs \ {p} :
        /\ HoldsWrite(p, IDSeq[1])
        /\ HoldsWrite(q, IDSeq[2])
        /\ ~fatal

\* ------------------------------------------------------------------------
\* The server: retrieve requests and the cleanup worker over stored drops
\* ------------------------------------------------------------------------

\* The first drop was saved at time 0 and has expired; the others were saved
\* in the current hour.
StoredAt(id) == IF IdIndex(id) = 1 THEN 0 ELSE NowHours * TicksPerHour

InitDisk ==
    [id \in IDs |-> SavedDir(1, 2, id, <<"a">>, <<IdIndex(id) % ByteMod>>, 0, 1,
                             StoredAt(id))]

\* Servers without honeypots, and servers whose honeypot is the expired
\* drop.
Configs ==
    {Config(hp, dar, sd, IDs) :
        hp \in {{}, {IDSeq[1]}}, dar \in BOOLEAN, sd \in BOOLEAN}

SweepHandlers == 1..MaxSweepHandlers

Init ==
    /\ InitLockTable
    /\ disk = InitDisk
    /\ quota = NewQuotaManager(disk)
    /\ env \in Configs
    /\ ps = [p \in Procs |->
               IF p = Cleaner THEN [OffProc EXCEPT !.pc = "cleanup"]
               ELSE IF p \in SweepHandlers THEN [OffProc EXCEPT !.pc = "handleRetrieve"]
               ELSE OffProc]

Next ==
    \/ \E p \in SweepHandlers \cup {Cleaner} : LockTable(p) \/ Storage(p)
    \/ \E p \in SweepHandlers : handleRetrieve(p)
    \/ cleanupExpiredDrops

Spec == Init /\ [][Next]_vars

\* ------------------------------------------------------------------------
\* Concurrent retrieve requests, no sweep in progress
\* ------------------------------------------------------------------------

InitRetrieve ==
    /\ InitLockTable
    /\ disk = InitDisk
    /\ quota = NewQuotaManager(disk)
    /\ env \in Configs
    /\ ps = [p \in Procs |->
               IF p \in Handlers THEN [OffProc EXCEPT !.pc = "handleRetrieve"]
               ELSE OffProc]

\* The lock-table methods the storage manager's GetDrop and DeleteDrop use.
BlockingLocks(p) ==
    \/ getLock(p)
    \/ RLock(p)
    \/ Lock(p)
    \/ RUnlock(p)
    \/ Unlock(p)

NextRetrieve ==
    \E p \in Handlers : BlockingLocks(p) \/ Storage(p) \/ handleRetrieve(p)

SpecRetrieve == InitRetrieve /\ [][NextRetrieve]_vars

\* ------------------------------------------------------------------------
\* Save and read back (as in the storage tests: SaveDrop, then GetDrop)
\* ------------------------------------------------------------------------

Clients == 1..NumClients

\* A client saves one drop of any filename and content.
client_save(p) ==
    /\ ~fatal
    /\ ps[p].pc = "client"
    /\ ps[p].mine = NoDrop
    /\ \E filename \in Filenames : \E data \in Plaintexts :
          \E dataNonce \in Nonces : \E metaNonce \in Nonces :
              SaveDrop(p, filename, data, dataNonce, metaNonce)

\* It asks for the drop it saved.
client_get(p) ==
    /\ ~fatal
    /\ ps[p].pc = "client"
    /\ ps[p].mine # NoDrop
    /\ ps' = [ps EXCEPT ![p] = GetDrop_enter(ps[p], ps[p].mine.id, "client_got")]
    /\ UNCHANGED <<lockVars, storeVars>>

\* It drops the result and may ask again.
client_next(p) ==
    /\ ~fatal
    /\ ps[p].pc = "client_got"
    /\ ps' = [ps EXCEPT ![p].pc = "client", ![p].res = NoResult]
    /\ UNCHANGED <<lockVars, storeVars>>

InitRT ==
    /\ InitLockTable
    /\ disk = [id \in IDs |-> NoDir]
    /\ quota = [totalBytes |-> 0, dropCount |-> 0]
    /\ env = Config({}, FALSE, TRUE, {})
    /\ ps = [p \in Procs |-> IF p \in Clients THEN [OffProc EXCEPT !.pc = "client"]
                             ELSE OffProc]

NextRT ==
    \E p \in Clients :
        \/ client_save(p)
        \/ client_get(p)
        \/ client_next(p)
        \/ GetDrop(p)
        \/ getLock(p)
        \/ RLock(p)
        \/ RUnlock(p)

SpecRT == InitRT /\ [][NextRT]_vars

\* C2: for every filename and every plaintext, the empty one included,
\* GetDrop of the id SaveDrop returned yields exactly that filename and
\* exactly those bytes (no delete or expiry having intervened).
C2_RoundTrip ==
    \A p \in Clients :
        (ps[p].pc = "client_got" /\ ps[p].mine # NoDrop)
            => ps[p].res = [err |-> "none", filename |-> ps[p].mine.filename,
                            body |-> ps[p].mine.data]

\* ------------------------------------------------------------------------
\* The quota manager on its own (as in the quota tests)
\* ------------------------------------------------------------------------

QuotaCallers == 1..NumQuotaCallers

\* Sizes passed to Reserve and Release are lengths of payloads.
Sizes == 0..MaxLen

\* qm.Reserve(bytes) by goroutine p; qm.mu makes the call one step.
quota_Reserve(p) ==
    /\ ps[p].pc = "quota"
    /\ env.tally.calls < MaxQuotaCalls
    /\ \E bytes \in Sizes :
          LET rsv == Reserve(quota, bytes, env.maxBytes, env.maxDrops)
              t   == env.tally
          IN /\ quota' = rsv.q
             /\ ps' = [ps EXCEPT ![p].res =
                          [NoResult EXCEPT !.err = IF rsv.ok THEN "none" ELSE "quota"]]
             /\ env' = [env EXCEPT !.tally =
                          IF rsv.ok
                          THEN [t EXCEPT !.n = @ + bytes, !.k = @ + 1, !.calls = @ + 1,
                                         !.mixed = @ \/ t.j > 0]
                          ELSE [t EXCEPT !.calls = @ + 1]]
    /\ UNCHANGED <<lockVars, disk>>

\* qm.Release(bytes) by goroutine p.
quota_Release(p) ==
    /\ ps[p].pc = "quota"
    /\ env.tally.calls < MaxQuotaCalls
    /\ \E bytes \in Sizes :
          /\ quota' = Release(quota, bytes)
          /\ env' = [env EXCEPT !.tally = [@ EXCEPT !.m = @ + bytes, !.j = @ + 1,
                                                    !.calls = @ + 1]]
    /\ ps' = [ps EXCEPT ![p].res = NoResult]
    /\ UNCHANGED <<lockVars, disk>>

\* NewQuotaManager on an empty storage root, with each limit set or 0.
InitQuota ==
    /\ InitLockTable
    /\ disk = [id \in IDs |-> NoDir]
    /\ quota = NewQuotaManager(disk)
    /\ \E mb \in {0, MaxStorageBytes} : \E md \in {0, MaxDrops} :
          env = [Config({}, FALSE, TRUE, {}) EXCEPT !.maxBytes = mb, !.maxDrops = md]
    /\ ps = [p \in Procs |-> IF p \in QuotaCallers THEN [OffProc EXCEPT !.pc = "quota"]
                             ELSE OffProc]

NextQuota == \E p \in QuotaCallers : quota_Reserve(p) \/ quota_Release(p)

SpecQuota == InitQuota /\ [][NextQuota]_vars

Tallied(field) == env.tally[field]

\* C11: with a limit set, the counter it bounds never exceeds it; a Reserve
\* that would exceed a limit fails and leaves both counters as they were;
\* a limit of 0 refuses nothing.
C11_QuotaWithinLimits ==
    /\ env.maxBytes > 0 => quota.totalBytes <= env.maxBytes
    /\ env.maxDrops > 0 => quota.dropCount <= env.maxDrops
    /\ \A bytes \in Sizes :
          LET rsv == Reserve(quota, bytes, env.maxBytes, env.maxDrops)
              over == \/ env.maxBytes > 0 /\ quota.totalBytes + bytes > env.maxBytes
                      \/ env.maxDrops > 0 /\ quota.dropCount + 1 > env.maxDrops
          IN /\ over => (~rsv.ok /\ rsv.q = quota)
             /\ ~over => (rsv.ok /\ rsv.q = [totalBytes |-> quota.totalBytes + bytes,
                                             dropCount |-> quota.dropCount + 1])
    /\ \A p \in QuotaCallers :
          ps[p].res.err = "quota" => (env.maxBytes > 0 \/ env.maxDrops > 0)

\* A Reserve has been refused with the drop counter at its limit.
C11_Witness ==
    \E p \in QuotaCallers :
        /\ ps[p].res.err = "quota"
        /\ env.maxDrops > 0
        /\ quota.dropCount = env.maxDrops
        /\ Tallied("j") > 0

\* C13: after successful Reserve calls followed by Release calls on a fresh
\* quota manager, the byte counter is max(0, reserved - released) and the
\* drop counter max(0, reserves - releases); no counter is ever negative.
C13_CountersClamped ==
    /\ quota.totalBytes >= 0
    /\ quota.dropCount >= 0
    /\ ~env.tally.mixed
          => /\ quota.totalBytes = Max(0, Tallied("n") - Tallied("m"))
             /\ quota.dropCount = Max(0, Tallied("k") - Tallied("j"))

\* More bytes and more drops have been released than were reserved.
C13_Witness ==
    /\ ~env.tally.mixed
    /\ Tallied("n") > 0
    /\ Tallied("m") > Tallied("n")
    /\ Tallied("j") > Tallied("k")
    /\ quota = [totalBytes |-> 0, dropCount |-> 0]

\* ------------------------------------------------------------------------
\* One caller of the storage manager (as in the storage tests: NewManager,
\* NewQuotaManager, then SaveDrop, GetDrop, GetDropMetadata and DeleteDrop
\* one after the other)
\* ------------------------------------------------------------------------

StoreCallers == {1}

\* Identifiers a caller may pass: the drops, and strings that are not 32
\* lowercase hex characters, one of them a path that leads to a drop.
CallIDs == RequestIDs \cup {"b/../a"}

\* Payloads the caller saves: one of each length.
StorePayloads == {[k \in 1..n |-> (n + k) % ByteMod] : n \in 0..MaxLen}

\* NewQuotaManager(dir, maxGB, maxDrops) and m.Quota = qm.
store_scan(p) ==
    /\ ~fatal
    /\ ps[p].pc = "NewQuotaManager"
    /\ quota' = NewQuotaManager(disk)
    /\ ps' = [ps EXCEPT ![p].pc = "store_done", ![p].trace = <<"NewQuotaManager">>]
    /\ UNCHANGED <<lockVars, disk, env>>

\* m.SaveDrop(filename, reader).
store_save(p) ==
    /\ ~fatal
    /\ ps[p].pc = "store"
    /\ \E data \in StorePayloads :
          SaveDrop_mkdir(p, <<"a">>, data, "store_done")

\* The rest of SaveDrop; the nonces are those of InitDisk.
store_SaveDrop(p) ==
    \/ SaveDrop_reserve(p)
    \/ SaveDrop_data(p, 0)
    \/ SaveDrop_meta(p, 1)

\* m.GetDrop(id).
store_get(p) ==
    /\ ~fatal
    /\ ps[p].pc = "store"
    /\ \E id \in CallIDs :
          ps' = [ps EXCEPT ![p] =
                   GetDrop_enter([ps[p] EXCEPT !.trace = <<"GetDrop">>,
                                               !.req.id = id],
                                 id, "store_done")]
    /\ UNCHANGED <<lockVars, storeVars>>

\* m.GetDropMetadata(id).
store_meta(p) ==
    /\ ~fatal
    /\ ps[p].pc = "store"
    /\ \E id \in CallIDs :
          LET m == GetDropMetadata(id)
          IN ps' = [ps EXCEPT ![p].pc = "store_done",
                              ![p].trace = <<"GetDropMetadata">>,
                              ![p].req.id = id,
                              ![p].res = [NoResult EXCEPT
                                             !.err = m.err,
                                             !.filename = m.payload.filename]]
    /\ UNCHANGED <<lockVars, storeVars>>

\* m.DeleteDrop(id).  Deleting another drop than the one saved last ends
\* the comparison of the counters with those before that save.
store_delete(p) ==
    /\ ~fatal
    /\ ps[p].pc = "store"
    /\ \E id \in CallIDs :
          ps' = [ps EXCEPT ![p] =
                   DeleteDrop_enter([ps[p] EXCEPT
                                        !.trace = <<"DeleteDrop">>,
                                        !.req.id = id,
                                        !.mine = IF id = @.id \/ ~ValidateDropID(id)
                                                 THEN @ ELSE NoDrop],
                                    id, "store_done")]
    /\ UNCHANGED <<lockVars, storeVars>>

\* The caller looks at the result and goes on.
store_next(p) ==
    /\ ~fatal
    /\ ps[p].pc = "store_done"
    /\ ps' = [ps EXCEPT ![p].pc = "store", ![p].res = NoResult,
                        ![p].req = NoRequest,
                        ![p].trace = <<>>]
    /\ UNCHANGED <<lockVars, storeVars>>

\* Storage roots a manager may be opened on: each drop absent, stored, or
\* stored in the legacy layout.
StoredDirs(id) ==
    LET d == SavedDir(1, 2, id, <<"a">>, <<IdIndex(id) % ByteMod>>, 0, 1, StoredAt(id))
    IN {NoDir, d, LegacyDir(d)}

InitStore ==
    /\ InitLockTable
    /\ disk \in {dsk \in [IDs -> UNION {StoredDirs(id) : id \in IDs}] :
                    \A id \in IDs : dsk[id] \in StoredDirs(id)}
    /\ quota = [totalBytes |-> 0, dropCount |-> 0]
    /\ \E mb \in {0, MaxStorageBytes} : \E sd \in BOOLEAN :
          env = [Config({}, FALSE, sd, {id \in IDs : disk[id].dir})
                    EXCEPT !.maxBytes = mb]
    /\ ps = [p \in Procs |->
               IF p \in StoreCallers THEN [OffProc EXCEPT !.pc = "NewQuotaManager"]
               ELSE OffProc]

NextStore ==
    \E p \in StoreCallers :
        \/ store_scan(p)
        \/ store_save(p)
        \/ store_SaveDrop(p)
        \/ store_get(p)
        \/ store_meta(p)
        \/ store_delete(p)
        \/ store_next(p)
        \/ getLock(p)
        \/ RLock(p)
        \/ RUnlock(p)
        \/ Lock_announce(p)
        \/ Unlock(p)
        \/ Storage(p)

SpecStore == InitStore /\ [][NextStore]_vars

\* The payload bytes and the number of drops under a storage root: every
\* drop directory with a payload file, named "data" or "file.enc".
RECURSIVE StoredFrom(_, _)
StoredFrom(k, dsk) ==
    IF k > Len(IDSeq) THEN [totalBytes |-> 0, dropCount |-> 0]
    ELSE LET rest == StoredFrom(k + 1, dsk)
             d == dsk[IDSeq[k]]
             f == d.files[PayloadName(d)]
         IN IF d.dir /\ f.kind # "none"
            THEN [totalBytes |-> rest.totalBytes + f.size,
                  dropCount |-> rest.dropCount + 1]
            ELSE rest

\* The caller p has just returned from the call op.
Returned(p, op) == ps[p].pc = "store_done" /\ ps[p].trace = <<op>>

\* C12: once the drop a caller saved has been deleted again by DeleteDrop,
\* with no other save or delete in between, both quota counters are what
\* they were just before that SaveDrop, whatever else is stored.
C12_SaveDeleteRestoresQuota ==
    \A p \in StoreCallers :
        (/\ Returned(p, "DeleteDrop")
         /\ ps[p].res.err = "none"
         /\ ps[p].mine # NoDrop
         /\ ps[p].req.id = ps[p].mine.id)
        => quota = ps[p].before

\* The storage manager called by one goroutine whose uploads may fail.
NextFail == NextStore \/ \E p \in StoreCallers : SaveDrop_fails(p)

SpecFail == InitStore /\ [][NextFail]_vars

\* C31: when SaveDrop returns an error, both quota counters are what they
\* were before the call and the directory of the attempted drop is gone.
C31_FailedSaveLeavesNothing ==
    [][\A p \in StoreCallers :
          (/\ ps[p].pc \in {"SaveDrop_reserve", "SaveDrop_data", "SaveDrop_meta"}
           /\ ps'[p].pc = "store_done"
           /\ ps'[p].res.err # "none")
          => /\ quota' = ps[p].before
             /\ ~disk'[ps[p].sid].dir]_vars

\* C18: GetDrop, GetDropMetadata and DeleteDrop called with an identifier
\* that is not a drop id (not hex, wrong length, empty, a path) return at
\* once with the invalid-identifier error: no file, no lock-table entry, no
\* lock and no quota counter has changed when they return.
C18_InvalidIdTouchesNothing ==
    [][\A p \in StoreCallers :
          (/\ ps[p].pc = "store"
           /\ ps'[p].trace \in {<<"GetDrop">>, <<"GetDropMetadata">>, <<"DeleteDrop">>}
           /\ ps'[p].req.id \notin IDs)
          => /\ ps'[p].pc = "store_done"
             /\ ps'[p].res = [NoResult EXCEPT !.err = "invalid"]
             /\ ps'[p].held = NoLock
             /\ ps'[p].lop = "none"
             /\ UNCHANGED <<lockVars, storeVars>>]_vars

C18_Witness ==
    \E p \in StoreCallers :
        /\ Returned(p, "DeleteDrop")
        /\ ps[p].req.id = "b/../a"
        /\ ps[p].res.err = "invalid"
        /\ disk["a"].dir /\ disk["a"].files["meta"].kind = "meta"
        /\ quota.dropCount > 0

\* C14: the counters of a newly constructed quota manager are the total
\* payload size and the number of the drops in the storage root, a payload
\* being the file named "data" or, in a legacy drop, "file.enc".
C14_ScanCountsPayloads ==
    \A p \in StoreCallers :
        Returned(p, "NewQuotaManager") => quota = StoredFrom(1, disk)

\* ------------------------------------------------------------------------
\* Files replaced on disk (the ciphertext swap of the threat model): two
\* stored drops, someone with access to the disk, and a caller of GetDrop
\* ------------------------------------------------------------------------

\* Two drops of different filename and content, sealed under the same key
\* with the same nonces.
SwapDisk ==
    [id \in IDs |->
        SavedDir(1, 2, id, <<IF IdIndex(id) = 1 THEN "a" ELSE "<">>,
                 <<IdIndex(id) % ByteMod>>, 0, 1, NowHours * TicksPerHour)]

\* The payload or the metadata file of drop a is replaced by that of drop
\* b, or the two are exchanged.
swap_files ==
    /\ ~fatal
    /\ \E a \in IDs : \E b \in IDs \ {a} : \E f \in {"data", "meta"} :
          \E both \in BOOLEAN :
             disk' = [disk EXCEPT ![a].files[f] = disk[b].files[f],
                                  ![b].files[f] = IF both THEN disk[a].files[f]
                                                          ELSE @]
    /\ UNCHANGED <<lockVars, quota, env, ps>>

InitSwap ==
    /\ InitLockTable
    /\ disk = SwapDisk
    /\ quota = NewQuotaManager(disk)
    /\ env = Config({}, FALSE, TRUE, IDs)
    /\ ps = [p \in Procs |->
               IF p \in StoreCallers THEN [OffProc EXCEPT !.pc = "store"]
               ELSE OffProc]

NextSwap ==
    \/ swap_files
    \/ \E p \in StoreCallers :
          \/ store_get(p)
          \/ store_next(p)
          \/ GetDrop(p)
          \/ getLock(p)
          \/ RLock(p)
          \/ RUnlock(p)

SpecSwap == InitSwap /\ [][NextSwap]_vars

\* File f of drop id is the one that was written for another drop.
Foreign(id, f) ==
    \E b \in IDs \ {id} : disk[id].files[f] = SwapDisk[b].files[f]

\* C19: GetDrop(A) fails when it reads a metadata file or a payload file
\* that was written for another drop B, returning no filename and no
\* content; and whatever GetDrop(A) returns is what was saved as A.
C19_SwappedFilesRejected ==
    [][\A p \in StoreCallers :
          /\ (/\ ps[p].pc = "GetDrop_meta" /\ ps'[p].pc # "GetDrop_meta"
              /\ Foreign(ps[p].sid, "meta"))
             => ps'[p].res = [NoResult EXCEPT !.err = "notfound"]
          /\ (/\ ps[p].pc = "GetDrop_data" /\ ps'[p].pc # "GetDrop_data"
              /\ Foreign(ps[p].sid, "data"))
             => ps'[p].res = [NoResult EXCEPT !.err = "decrypt"]
          /\ (ps[p].pc = "GetDrop_data" /\ ps'[p].res.err = "none")
             => /\ ps'[p].res.filename = IF ps[p].sid = IDSeq[1] THEN <<"a">> ELSE <<"<">>
                /\ ps'[p].res.body = <<IdIndex(ps[p].sid) % ByteMod>>]_vars

C19_Witness ==
    \E p \in StoreCallers :
        /\ Returned(p, "GetDrop")
        /\ ps[p].req.id = IDSeq[1]
        /\ ps[p].res.err = "decrypt"
        /\ disk[IDSeq[1]].files["data"] = SwapDisk[IDSeq[2]].files["data"]
        /\ disk[IDSeq[1]].files["meta"] = SwapDisk[IDSeq[1]].files["meta"]

\* ------------------------------------------------------------------------
\* The honeypot manager (internal/honeypot: NewManager, GenerateHoneypots,
\* saveIDs), called by one goroutine as at server start
\* ------------------------------------------------------------------------

MaxHoneypots == 2

\* honeypot.NewManager: a manager with the ids of the .honeypots file, or
\* with none when there is no such file.
honeypot_NewManager(p) ==
    /\ ~fatal
    /\ ps[p].pc = "honeypot"
    /\ env' = [env EXCEPT !.hp = IF env.list.exists THEN env.list.ids ELSE {}]
    /\ ps' = [ps EXCEPT ![p].trace = <<"NewManager">>]
    /\ UNCHANGED <<lockVars, disk, quota>>

\* A GenerateHoneypots without the test of len(m.ids).
GenerateHoneypots_enter_always(p) ==
    /\ ~fatal
    /\ ps[p].pc = "honeypot"
    /\ \E count \in 0..MaxHoneypots :
          ps' = [ps EXCEPT
                   ![p].todo = [k \in 1..count |-> "document.bin"],
                   ![p].trace = IF @ = <<"NewManager">>
                                THEN <<"NewManager", "GenerateHoneypots">>
                                ELSE <<"GenerateHoneypots">>,
                   ![p].res = NoResult,
                   ![p].pc = "GenerateHoneypots_loop"]
    /\ UNCHANGED <<lockVars, storeVars>>

\* GenerateHoneypots(count, sm): nothing to do when the set is not empty.
\* todo holds one filename for each drop still to be created.
GenerateHoneypots_enter(p) ==
    /\ ~fatal
    /\ ps[p].pc = "honeypot"
    /\ \E count \in 0..MaxHoneypots :
          ps' = [ps EXCEPT
                   ![p].todo = [k \in 1..count |-> "document.bin"],
                   ![p].trace = IF @ = <<"NewManager">>
                                THEN <<"NewManager", "GenerateHoneypots">>
                                ELSE <<"GenerateHoneypots">>,
                   ![p].res = IF env.hp # {} THEN [NoResult EXCEPT !.err = "none"]
                                             ELSE NoResult,
                   ![p].pc = IF env.hp # {} THEN "honeypot_done"
                                            ELSE "GenerateHoneypots_loop"]
    /\ UNCHANGED <<lockVars, storeVars>>

\* The loop: decoy content of random size is saved as "document.bin"; after
\* the last drop saveIDs writes the set to .honeypots.
GenerateHoneypots_loop(p) ==
    /\ ~fatal
    /\ ps[p].pc = "GenerateHoneypots_loop"
    /\ IF ps[p].todo = <<>>
       THEN /\ env' = [env EXCEPT !.list = [exists |-> TRUE, ids |-> env.hp]]
            /\ ps' = [ps EXCEPT ![p].pc = "honeypot_done",
                                ![p].res = [NoResult EXCEPT !.err = "none"]]
            /\ UNCHANGED <<lockVars, disk, quota>>
       ELSE \E data \in StorePayloads :
               SaveDrop_mkdir(p, <<"a">>, data, "GenerateHoneypots_saved")

\* SaveDrop has returned: its error is returned, or the id joins the set.
GenerateHoneypots_saved(p) ==
    /\ ~fatal
    /\ ps[p].pc = "GenerateHoneypots_saved"
    /\ IF ps[p].res.err # "none"
       THEN /\ ps' = [ps EXCEPT ![p].pc = "honeypot_done"]
            /\ env' = env
       ELSE /\ env' = [env EXCEPT !.hp = @ \cup {ps[p].mine.id}]
            /\ ps' = [ps EXCEPT ![p].pc = "GenerateHoneypots_loop",
                                ![p].todo = Tail(@)]
    /\ UNCHANGED <<lockVars, disk, quota>>

GenerateHoneypots(p) ==
    \/ GenerateHoneypots_enter(p)
    \/ GenerateHoneypots_loop(p)
    \/ GenerateHoneypots_saved(p)

\* The caller goes on.
honeypot_next(p) ==
    /\ ~fatal
    /\ ps[p].pc = "honeypot_done"
    /\ ps' = [ps EXCEPT ![p].pc = "honeypot", ![p].res = NoResult,
                        ![p].todo = <<>>, ![p].trace = <<>>]
    /\ UNCHANGED <<lockVars, storeVars>>

InitHoneypot ==
    /\ InitLockTable
    /\ disk = [id \in IDs |-> NoDir]
    /\ quota = NewQuotaManager(disk)
    /\ \E mb \in {0, MaxStorageBytes} : \E md \in {0, MaxDrops} :
          env = [Config({}, FALSE, TRUE, {}) EXCEPT !.maxBytes = mb, !.maxDrops = md]
    /\ ps = [p \in Procs |->
               IF p \in StoreCallers THEN [OffProc EXCEPT !.pc = "honeypot"]
               ELSE OffProc]

NextHoneypot ==
    \E p \in StoreCallers :
        \/ honeypot_NewManager(p)
        \/ GenerateHoneypots(p)
        \/ store_SaveDrop(p)
        \/ honeypot_next(p)

SpecHoneypot == InitHoneypot /\ [][NextHoneypot]_vars

\* C16: a call of GenerateHoneypots made while the honeypot set is not
\* empty (filled by an earlier call, or read from .honeypots by a new
\* manager) returns at once without error, whatever the count: no drop is
\* created and neither the set nor the .honeypots file changes.
C16_GenerateIdempotent ==
    [][\A p \in StoreCallers :
          (/\ ps[p].pc = "honeypot"
           /\ ps'[p].pc # "honeypot"
           /\ env.hp # {})
          => /\ ps'[p].pc = "honeypot_done"
             /\ ps'[p].res = [NoResult EXCEPT !.err = "none"]
             /\ UNCHANGED <<lockVars, storeVars>>]_vars

C16_Witness ==
    \E p \in StoreCallers :
        /\ ps[p].pc = "honeypot_done"
        /\ ps[p].trace = <<"NewManager", "GenerateHoneypots">>
        /\ Len(ps[p].todo) = MaxHoneypots
        /\ env.hp = {IDSeq[1]}
        /\ env.list = [exists |-> TRUE, ids |-> env.hp]
        /\ disk[IDSeq[2]] = NoDir
        /\ quota.dropCount = 1

\* The ids of the .honeypots file, none when there is no file.
PersistedIDs == IF env.list.exists THEN env.list.ids ELSE {}

\* C35: whenever GenerateHoneypots has returned, with or without an error,
\* the honeypot set in memory equals the list in .honeypots; and when it has
\* returned success while that list is empty, the set has exactly count
\* ids.
C35_SetEqualsPersistedList ==
    \A p \in StoreCallers :
        ps[p].pc = "honeypot_done"
        => /\ env.hp = PersistedIDs
           /\ (ps[p].res.err = "none" /\ PersistedIDs = {})
              => Cardinality(env.hp) = Len(ps[p].todo)

\* ------------------------------------------------------------------------
\* An upload while the cleanup worker runs: one stored drop that has
\* expired, one caller of SaveDrop, and the sweep
\* ------------------------------------------------------------------------

InitSave ==
    /\ InitLockTable
    /\ disk = [id \in IDs |-> IF IdIndex(id) = 1 THEN InitDisk[id] ELSE NoDir]
    /\ quota = NewQuotaManager(disk)
    /\ \E mb \in {0, MaxStorageBytes} : \E sd \in BOOLEAN :
          env = [Config({}, FALSE, sd, {id \in IDs : disk[id].dir})
                    EXCEPT !.maxBytes = mb]
    /\ ps = [p \in Procs |->
               IF p = Cleaner THEN [OffProc EXCEPT !.pc = "cleanup"]
               ELSE IF p \in StoreCallers THEN [OffProc EXCEPT !.pc = "store"]
               ELSE OffProc]

NextSave ==
    \/ \E p \in StoreCallers :
          \/ store_save(p)
          \/ store_SaveDrop(p)
          \/ store_next(p)
    \/ cleanupExpiredDrops
    \/ getLock(Cleaner)
    \/ TryLock(Cleaner)
    \/ Lock_announce(Cleaner)
    \/ Unlock(Cleaner)
    \/ DeleteDrop(Cleaner)

SpecSave == InitSave /\ [][NextSave]_vars

\* ------------------------------------------------------------------------
\* A download while drops are uploaded and swept: one caller of GetDrop,
\* one caller of SaveDrop, and the cleanup worker with its DeleteDrop
\* ------------------------------------------------------------------------

Reader == 1

Uploader == 2

\* The filenames uploaded: plain, and with a byte that is not valid UTF-8.
ReadFilenames == {<<"a">>, <<"xFF">>}

\* m.SaveDrop(filename, reader).
read_save(p) ==
    /\ ~fatal
    /\ ps[p].pc = "store"
    /\ \E filename \in ReadFilenames :
          SaveDrop_mkdir(p, filename, <<0>>, "store_done")

\* m.GetDrop(id) of a drop.
read_get(p) ==
    /\ ~fatal
    /\ ps[p].pc = "store"
    /\ \E id \in IDs :
          ps' = [ps EXCEPT ![p] =
                   GetDrop_enter([ps[p] EXCEPT !.trace = <<"GetDrop">>,
                                               !.req.id = id],
                                 id, "store_done")]
    /\ UNCHANGED <<lockVars, storeVars>>

InitRead ==
    /\ InitLockTable
    /\ disk = [id \in IDs |-> IF IdIndex(id) = 1 THEN InitDisk[id] ELSE NoDir]
    /\ quota = NewQuotaManager(disk)
    /\ \E sd \in BOOLEAN :
          env = [Config({}, FALSE, sd, {id \in IDs : disk[id].dir})
                    EXCEPT !.maxBytes = 0, !.maxDrops = 0]
    /\ ps = [p \in Procs |->
               IF p = Cleaner THEN [OffProc EXCEPT !.pc = "cleanup"]
               ELSE IF p \in {Reader, Uploader} THEN [OffProc EXCEPT !.pc = "store"]
               ELSE OffProc]

NextRead ==
    \/ read_get(Reader)
    \/ read_save(Uploader)
    \/ store_SaveDrop(Uploader)
    \/ \E p \in {Reader, Uploader} : store_next(p)
    \/ cleanupExpiredDrops
    \/ \E p \in {Reader, Cleaner} : LockTable(p) \/ Storage(p)

SpecRead == InitRead /\ [][NextRead]_vars

\* What was saved under drop id: the stored drop, or the uploaded one.
Saved(id) ==
    IF id = IDSeq[1]
    THEN [id |-> id, filename |-> <<"a">>, data |-> <<IdIndex(id) % ByteMod>>]
    ELSE IF ps[Uploader].mine.id = id THEN ps[Uploader].mine
    ELSE NoDrop

\* C29: whatever DeleteDrop, the sweep and SaveDrop do meanwhile, a GetDrop
\* that returns without error returns the filename and the plaintext that
\* were saved under the id it was called with.
C29_GetDropExactOrError ==
    (/\ ps[Reader].pc = "store_done"
     /\ ps[Reader].trace = <<"GetDrop">>
     /\ ps[Reader].res.err = "none")
    => /\ Saved(ps[Reader].req.id) # NoDrop
       /\ ps[Reader].res.filename = Saved(ps[Reader].req.id).filename
       /\ ps[Reader].res.body = Saved(ps[Reader].req.id).data

\* ------------------------------------------------------------------------
\* The key file (internal/storage: loadOrGenerateKey, called by NewManager
\* at every start of the server)
\* ------------------------------------------------------------------------

MaxKey == 3

MaxMasterKey == 3

plaintextKeySize == 32

EncryptedKeySize == 60

\* Lengths a damaged key file may have ("wrong-size" has 10 bytes).
OtherKeySizes == {0, 10, plaintextKeySize + 1, EncryptedKeySize - 1, EncryptedKeySize + 1}

\* What crypto.GenerateKey may return for the encryption key and for the
\* receipt key: two random keys are never equal.
StorageKeys == 1..MaxKey

ReceiptKeys == (MaxKey + 1)..(2 * MaxKey)

MasterKeys == 1..MaxMasterKey

PlainKeyFile(key) ==
    [exists |-> TRUE, size |-> plaintextKeySize, wrap |-> 0, purpose |-> NoPurpose,
     key |-> key]

\* crypto.EncryptKeyFile: nonce, sealed key and tag; the purpose is the
\* additional data of gcm.Seal.
EncryptKeyFile(masterKey, key, purpose) ==
    [exists |-> TRUE, size |-> NonceSize + plaintextKeySize + TagSize,
     wrap |-> masterKey, purpose |-> purpose, key |-> key]

\* DecryptKeyFile without the additional data: any purpose opens the file.
DecryptKeyFile_any_purpose(masterKey, file, purpose) ==
    IF file.wrap = masterKey /\ masterKey # 0
    THEN [err |-> "none", key |-> file.key]
    ELSE [err |-> "decrypt", key |-> 0]

\* crypto.DecryptKeyFile: gcm.Open under the master key with the purpose as
\* additional data.
DecryptKeyFile(masterKey, file, purpose) ==
    IF file.wrap = masterKey /\ masterKey # 0 /\ file.purpose = purpose
    THEN [err |-> "none", key |-> file.key]
    ELSE [err |-> "decrypt", key |-> 0]

\* Key files a storage root may hold for keys of the given set.
KeyFilesOf(keys) ==
    {NoKeyFile}
    \cup {PlainKeyFile(k) : k \in keys}
    \cup {EncryptKeyFile(mk, k, NoPurpose) : mk \in MasterKeys, k \in keys}
    \cup {[exists |-> TRUE, size |-> n, wrap |-> 0, purpose |-> NoPurpose, key |-> 0] :
             n \in OtherKeySizes \cup {EncryptedKeySize}}

KeyFiles == KeyFilesOf(StorageKeys)

\* loadOrGenerateKey(keyPath, masterKey[, purpose]); fresh is what
\* crypto.GenerateKey would return.  The result is the error, the key and
\* the file left on disk.  The purpose is handed to crypto.EncryptKeyFile
\* and crypto.DecryptKeyFile; a caller that names none passes NoPurpose.
loadOrGenerateKey(file, masterKey, purpose, fresh) ==
    LET generated ==
            [err |-> "none", key |-> fresh,
             file |-> IF masterKey = 0 THEN PlainKeyFile(fresh)
                                       ELSE EncryptKeyFile(masterKey, fresh, purpose)]
    IN IF ~file.exists THEN generated
       ELSE IF masterKey = 0
       THEN IF file.size = plaintextKeySize
            THEN [err |-> "none", key |-> file.key, file |-> file]
            ELSE generated
       ELSE IF file.size = EncryptedKeySize
       THEN [err  |-> DecryptKeyFile(masterKey, file, purpose).err,
             key  |-> DecryptKeyFile(masterKey, file, purpose).key,
             file |-> file]
       ELSE IF file.size = plaintextKeySize
       THEN [err |-> "none", key |-> file.key,
             file |-> EncryptKeyFile(masterKey, file.key, purpose)]
       ELSE generated

\* The purpose NewReceiptManager wraps the receipt key for.
ReceiptPurpose == "receipt-key"

\* NewManager: the encryption key is loaded from .encryption.key, naming no
\* purpose, then NewReceiptManager loads the receipt key from .receipt.key
\* for ReceiptPurpose; an error of either leaves no manager.
key_load(p) ==
    /\ ~fatal
    /\ ps[p].pc = "NewManager"
    /\ \E fresh \in StorageKeys : \E freshReceipt \in ReceiptKeys :
          LET r  == loadOrGenerateKey(env.keyfile, env.master, NoPurpose, fresh)
              rr == loadOrGenerateKey(env.receiptfile, env.master, ReceiptPurpose,
                                      freshReceipt)
          IN IF r.err # "none"
             THEN /\ env' = [env EXCEPT !.keyfile = r.file, !.key = 0, !.secret = 0]
                  /\ ps' = [ps EXCEPT ![p].pc = "NewManager_done",
                                      ![p].res = [NoResult EXCEPT !.err = r.err]]
             ELSE /\ env' = [env EXCEPT !.keyfile = r.file,
                                        !.receiptfile = rr.file,
                                        !.key = IF rr.err = "none" THEN r.key ELSE 0,
                                        !.secret = rr.key]
                  /\ ps' = [ps EXCEPT ![p].pc = "NewManager_done",
                                      ![p].res = [NoResult EXCEPT !.err = rr.err]]
    /\ UNCHANGED <<lockVars, disk, quota>>

\* ZeroBytes: every byte of the buffer becomes zero; key 0 is the buffer of
\* zero bytes.
ZeroBytes(b) == 0

\* Close that forgets the receipt manager.
key_Close_encryption_only(p) ==
    /\ ~fatal
    /\ ps[p].pc = "NewManager_done"
    /\ ps[p].res.err = "none"
    /\ env' = [env EXCEPT !.key = ZeroBytes(env.key)]
    /\ ps' = [ps EXCEPT ![p].pc = "Close_done"]
    /\ UNCHANGED <<lockVars, disk, quota>>

\* Manager.Close on the manager NewManager returned.
key_Close(p) ==
    /\ ~fatal
    /\ ps[p].pc = "NewManager_done"
    /\ ps[p].res.err = "none"
    /\ env' = [env EXCEPT !.key = ZeroBytes(env.key),
                          !.secret = ZeroBytes(env.secret)]
    /\ ps' = [ps EXCEPT ![p].pc = "Close_done"]
    /\ UNCHANGED <<lockVars, disk, quota>>

\* The server is started again, with or without a master key.  A process
\* that ended without Close leaves its keys in the memory it gave back.
key_restart(p) ==
    /\ ~fatal
    /\ ps[p].pc \in {"NewManager_done", "Close_done"}
    /\ \E mk \in {0} \cup MasterKeys :
          env' = [env EXCEPT !.master = mk]
    /\ ps' = [ps EXCEPT ![p].pc = "NewManager", ![p].res = NoResult]
    /\ UNCHANGED <<lockVars, disk, quota>>

\* While the server is down the two wrapped key files are exchanged on disk.
key_exchange(p) ==
    /\ ~fatal
    /\ ps[p].pc = "NewManager"
    /\ env.keyfile.size = EncryptedKeySize
    /\ env.receiptfile.size = EncryptedKeySize
    /\ env.keyfile # env.receiptfile
    /\ env' = [env EXCEPT !.keyfile = env.receiptfile, !.receiptfile = env.keyfile]
    /\ UNCHANGED <<lockVars, disk, quota, ps>>

InitKey ==
    /\ InitLockTable
    /\ disk = [id \in IDs |-> NoDir]
    /\ quota = [totalBytes |-> 0, dropCount |-> 0]
    /\ \E file \in KeyFiles : \E mk \in {0} \cup MasterKeys :
          env = [Config({}, FALSE, TRUE, {}) EXCEPT !.keyfile = file, !.master = mk,
                                                    !.key = 0, !.secret = 0]
    /\ ps = [p \in Procs |->
               IF p \in StoreCallers THEN [OffProc EXCEPT !.pc = "NewManager"]
               ELSE OffProc]

NextKey ==
    \E p \in StoreCallers :
        key_load(p) \/ key_Close(p) \/ key_restart(p) \/ key_exchange(p)

SpecKey == InitKey /\ [][NextKey]_vars

\* C20: loading a key file whose size is neither 32 nor 60 bytes returns an
\* error and leaves the file as it was.
C20_BadKeyFileRejected ==
    [][\A p \in StoreCallers :
          (/\ ps[p].pc = "NewManager"
           /\ ps'[p].pc = "NewManager_done"
           /\ env.keyfile.exists
           /\ env.keyfile.size \notin {plaintextKeySize, EncryptedKeySize})
          => /\ ps'[p].res.err # "none"
             /\ env'.keyfile = env.keyfile]_vars

\* A key file that holds a key: 32 bytes of it, or a wrapped key.
Genuine(file) ==
    /\ file.exists
    /\ \/ file.size = plaintextKeySize
       \/ file.size = EncryptedKeySize /\ file.wrap # 0

\* A start of the server that returned a manager.
Started(p) ==
    /\ ps[p].pc = "NewManager"
    /\ ps'[p].pc = "NewManager_done"
    /\ ps'[p].res.err = "none"

\* Loading file as the key `loaded` left file `after`: the key is the one
\* the file held, it stays in the file, and a 32-byte file met with a
\* master key becomes a 60-byte wrapped file of that key.
KeptKey(file, loaded, after, masterKey) ==
    Genuine(file) =>
        /\ loaded = file.key
        /\ Genuine(after) /\ after.key = file.key
        /\ (masterKey # 0 /\ file.size = plaintextKeySize)
               => after.size = EncryptedKeySize /\ after.wrap = masterKey

\* C21: every start of the server on a storage root that holds key files
\* loads the keys those files hold and leaves them in the files, so the keys
\* of the first start stay; a start with a master key turns a 32-byte key
\* file into a 60-byte wrapped file of the same key.
C21_KeysPersist ==
    [][\A p \in StoreCallers :
          Started(p) =>
              /\ KeptKey(env.keyfile, env'.key, env'.keyfile, env.master)
              /\ KeptKey(env.receiptfile, env'.secret, env'.receiptfile,
                         env.master)]_vars

\* A wrapped key file this start cannot open: no master key is supplied, or
\* unwrapping fails.
Unopenable(file, purpose) ==
    /\ Genuine(file)
    /\ file.size = EncryptedKeySize
    /\ \/ env.master = 0
       \/ DecryptKeyFile(env.master, file, purpose).err # "none"

\* C32: no start of the server puts a freshly generated key in the place of
\* a key file that holds a key; a start that meets a wrapped encryption-key
\* file it cannot open fails and leaves the file unchanged.
C32_KeyFileNeverReplaced ==
    [][\A p \in StoreCallers :
          (ps[p].pc = "NewManager" /\ ps'[p].pc = "NewManager_done")
          => /\ Genuine(env.keyfile) => env'.keyfile.key = env.keyfile.key
             /\ Genuine(env.receiptfile)
                   => env'.receiptfile.key = env.receiptfile.key
             /\ Unopenable(env.keyfile, NoPurpose)
                   => /\ ps'[p].res.err # "none"
                      /\ env'.keyfile = env.keyfile]_vars

\* The file is wrapped under the master key of this start for the purpose.
WrappedFor(file, purpose) ==
    /\ file.size = EncryptedKeySize
    /\ file.wrap = env.master
    /\ env.master # 0
    /\ file.purpose = purpose

C26_CloseZeroesKeys ==
    \A p \in StoreCallers :
        ps[p].pc = "Close_done" => env.key = 0 /\ env.secret = 0

C26_Witness ==
    /\ ps[1].pc = "Close_done"
    /\ env.keyfile.key \in StorageKeys
    /\ env.receiptfile.key \in ReceiptKeys

\* ------------------------------------------------------------------------
\* The key rotation tool, run while the server is down
\* ------------------------------------------------------------------------

\* loadKey of the rotation tool: a key file of an unexpected size is an
\* error; the tool names no purpose.
loadKey(file, masterKey) ==
    IF ~file.exists THEN [err |-> "read", key |-> 0]
    ELSE IF masterKey = 0
    THEN IF file.size = plaintextKeySize THEN [err |-> "none", key |-> file.key]
         ELSE [err |-> "size", key |-> 0]
    ELSE IF file.size = EncryptedKeySize
    THEN DecryptKeyFile(masterKey, file, NoPurpose)
    ELSE IF file.size = plaintextKeySize THEN [err |-> "none", key |-> file.key]
    ELSE [err |-> "size", key |-> 0]

\* rewrapKeyFile: the result is the error and the file left on disk.
rewrapKeyFile(file, oldMasterKey, newMasterKey) ==
    LET k == loadKey(file, oldMasterKey)
    IN IF k.err # "none" THEN [err |-> k.err, file |-> file]
       ELSE [err |-> "none", file |-> EncryptKeyFile(newMasterKey, k.key, NoPurpose)]

\* reencryptFile: os.ReadFile, DecryptStream under the old key and
\* EncryptStream under the new key, both with the drop id as additional
\* data, and the file written back.
reencryptFile(file, dropID, oldKey, newKey, nonce) ==
    IF file.kind = "none" THEN [err |-> "read", file |-> file]
    ELSE LET dec == DecryptStream(oldKey, file, dropID)
         IN IF ~dec.ok THEN [err |-> "decrypt", file |-> file]
            ELSE [err |-> "none",
                  file |-> EncryptStream(newKey, dec.pt, dropID, nonce)]

\* log.Fatalf, or the return of main: the tool is over, and the server is
\* started with the new passphrase.
rotate_exit(rec, err) == [rec EXCEPT !.pc = "NewManager", !.res = NoResult,
                                     !.entries = <<>>, !.sid = "none",
                                     !.trace = <<"rotate", err>>]

\* main of a full rotation up to the loop: the passphrases, loadKey of the
\* old encryption key, GenerateKey and os.ReadDir.
rotate_begin(p) ==
    /\ ~fatal
    /\ ps[p].pc = "rotate"
    /\ \E old \in {0} \cup MasterKeys : \E new \in MasterKeys :
       \E newKey \in StorageKeys :
          LET k == loadKey(env.keyfile, old)
              t == [ran |-> TRUE, old |-> old, new |-> new, oldKey |-> k.key,
                    newKey |-> newKey, err |-> k.err, disk |-> disk]
          IN /\ env' = [env EXCEPT !.tool = t, !.master = new]
             /\ ps' = [ps EXCEPT ![p] =
                         IF k.err # "none" THEN rotate_exit(ps[p], k.err)
                         ELSE [ps[p] EXCEPT !.pc = "rotate_drops",
                                            !.entries = ReadDir]]
    /\ UNCHANGED <<lockVars, disk, quota>>

\* reencryptDrop of the next drop directory: its payload file.
rotate_payload(p) ==
    /\ ~fatal
    /\ ps[p].pc = "rotate_drops"
    /\ ps[p].entries # <<>>
    /\ \E nonce \in Nonces :
          LET id == Head(ps[p].entries)
              f  == PayloadName(disk[id])
              r  == reencryptFile(disk[id].files[f], id, env.tool.oldKey,
                                  env.tool.newKey, nonce)
          IN /\ disk' = [disk EXCEPT ![id].files[f] = r.file]
             /\ env' = [env EXCEPT !.tool.err = r.err]
             /\ ps' = [ps EXCEPT ![p] =
                         IF r.err # "none" THEN rotate_exit(ps[p], r.err)
                         ELSE [ps[p] EXCEPT !.pc = "rotate_meta", !.sid = id]]
    /\ UNCHANGED <<lockVars, quota>>

\* reencryptDrop: the metadata file, handed to reencryptFile as well.
rotate_meta(p) ==
    /\ ~fatal
    /\ ps[p].pc = "rotate_meta"
    /\ \E nonce \in Nonces :
          LET id == ps[p].sid
              r  == reencryptFile(disk[id].files["meta"], id, env.tool.oldKey,
                                  env.tool.newKey, nonce)
          IN /\ disk' = [disk EXCEPT ![id].files["meta"] = r.file]
             /\ env' = [env EXCEPT !.tool.err = r.err]
             /\ ps' = [ps EXCEPT ![p] =
                         IF r.err # "none" THEN rotate_exit(ps[p], r.err)
                         ELSE [ps[p] EXCEPT !.pc = "rotate_drops", !.sid = "none",
                                            !.entries = Tail(@)]]
    /\ UNCHANGED <<lockVars, quota>>

\* main after the loop: the new encryption key is written wrapped under the
\* new master key, then the receipt key is re-wrapped.
rotate_keys(p) ==
    /\ ~fatal
    /\ ps[p].pc = "rotate_drops"
    /\ ps[p].entries = <<>>
    /\ LET r == rewrapKeyFile(env.receiptfile, env.tool.old, env.tool.new)
       IN /\ env' = [env EXCEPT
                        !.keyfile = EncryptKeyFile(env.tool.new, env.tool.newKey,
                                                   NoPurpose),
                        !.receiptfile = r.file,
                        !.tool.err = r.err]
          /\ ps' = [ps EXCEPT ![p] = rotate_exit(ps[p], r.err)]
    /\ UNCHANGED <<lockVars, disk, quota>>

\* The key files a server leaves for encryption key 1 and receipt key
\* MaxKey + 1: both plain, or both wrapped under one master key.
RotateKeyFiles ==
    {<<PlainKeyFile(1), PlainKeyFile(MaxKey + 1)>>}
    \cup {<<EncryptKeyFile(mk, 1, NoPurpose),
            EncryptKeyFile(mk, MaxKey + 1, ReceiptPurpose)>> : mk \in MasterKeys}

\* The drops of the root were saved under those keys.
RotateDirs(id) ==
    LET d == SavedDir(1, MaxKey + 1, id, <<"a">>, <<IdIndex(id) % ByteMod>>, 0, 1,
                      StoredAt(id))
    IN {NoDir, d, LegacyDir(d)}

InitRotate ==
    /\ InitLockTable
    /\ disk \in {dsk \in [IDs -> UNION {RotateDirs(id) : id \in IDs}] :
                    \A id \in IDs : dsk[id] \in RotateDirs(id)}
    /\ quota = [totalBytes |-> 0, dropCount |-> 0]
    /\ \E files \in RotateKeyFiles :
          env = [Config({}, FALSE, TRUE, {id \in IDs : disk[id].dir})
                    EXCEPT !.keyfile = files[1], !.receiptfile = files[2],
                           !.key = 0, !.secret = 0]
    /\ ps = [p \in Procs |->
               IF p \in StoreCallers THEN [OffProc EXCEPT !.pc = "rotate"]
               ELSE OffProc]

NextRotate ==
    \E p \in StoreCallers :
        \/ rotate_begin(p)
        \/ rotate_payload(p)
        \/ rotate_meta(p)
        \/ rotate_keys(p)
        \/ key_load(p)

SpecRotate == InitRotate /\ [][NextRotate]_vars

\* What GetDrop returns for drop id on storage root dsk to a server whose
\* encryption key is key.
Retrieve(dsk, key, id) ==
    LET m    == loadEncryptedMetadata(dsk[id].files["meta"], key, id)
        file == dsk[id].files[PayloadName(dsk[id])]
        dec  == DecryptStream(key, file, id)
    IN IF ~m.ok \/ file.kind = "none" \/ ~dec.ok
       THEN [ok |-> FALSE, filename |-> <<>>, body |-> <<>>]
       ELSE [ok |-> TRUE, filename |-> m.payload.filename, body |-> dec.pt]

\* C23: when a full rotation was run with the old passphrase of the storage
\* root, the server started afterwards with the new passphrase returns for
\* every drop that was retrievable before the rotation the same filename
\* and plaintext, and the receipt issued for it still validates.
C23_RotationKeepsDrops ==
    \A p \in StoreCallers :
        (/\ ps[p].pc = "NewManager_done"
         /\ env.tool.ran
         /\ env.tool.oldKey # 0)
        => \A id \in IDs :
              LET was == Retrieve(env.tool.disk, env.tool.oldKey, id)
              IN was.ok =>
                   /\ Retrieve(disk, env.key, id) = was
                   /\ Validate(env.secret, id, Generate(MaxKey + 1, id))

\* C33: at every point of a full rotation, finished or not, every drop that
\* was retrievable before the rotation is retrievable with the encryption
\* key held by the key file that is on disk at that point.
C33_StoppedRotationDecryptable ==
    (env.tool.ran /\ env.tool.oldKey # 0)
    => \A id \in IDs :
          Retrieve(env.tool.disk, env.tool.oldKey, id).ok
          => Retrieve(disk, env.keyfile.key, id).ok

\* ------------------------------------------------------------------------
\* SecureDelete of one file, pass by pass, with failing writes and syncs
\* ------------------------------------------------------------------------

MaxFileSize == 4

\* The length of the 4096-byte buffer of SecureDelete, scaled down.
BufLen == 2

\* The bytes of a file: as saved, 0x00, 0xFF, or from crypto/rand.
RandomBytes == {"r0", "r1"}

Fill(size, b) == [i \in 1..size |-> b]

\* The write loop of overwriteFile and overwriteFileRandom: chunks of at
\* most BufLen bytes of fill are written from pos on while bytes remain;
\* the write after `writes` successful ones fails.
RECURSIVE writeLoop(_, _, _, _, _)
writeLoop(content, pos, remaining, fill, writes) ==
    IF remaining <= 0 THEN [err |-> "none", content |-> content]
    ELSE IF writes = 0 THEN [err |-> "write", content |-> content]
    ELSE LET n == IF BufLen > remaining THEN remaining ELSE BufLen
         IN writeLoop([i \in 1..Len(content) |->
                          IF i > pos /\ i <= pos + n THEN fill[i] ELSE content[i]],
                      pos + n, remaining - n, fill, writes - 1)

\* An overwriteFile that writes the buffer once.
overwriteFile_one_write(content, size, pattern, writes, syncOK) ==
    LET w == writeLoop(content, 0, IF BufLen > size THEN size ELSE BufLen,
                       Fill(size, pattern), writes)
    IN IF w.err # "none" THEN w
       ELSE [err |-> IF syncOK THEN "none" ELSE "sync", content |-> w.content]

\* overwriteFile(f, size, pattern): Seek(0, 0), the write loop, f.Sync().
overwriteFile(content, size, pattern, writes, syncOK) ==
    LET w == writeLoop(content, 0, size, Fill(size, pattern), writes)
    IN IF w.err # "none" THEN w
       ELSE [err |-> IF syncOK THEN "none" ELSE "sync", content |-> w.content]

\* overwriteFileRandom(f, size); random is what rand.Read delivers.
overwriteFileRandom(content, size, random, writes, syncOK) ==
    LET w == writeLoop(content, 0, size, random, writes)
    IN IF w.err # "none" THEN w
       ELSE [err |-> IF syncOK THEN "none" ELSE "sync", content |-> w.content]

\* The file SecureDelete is called on; its body is its bytes.
WipePath == <<IDSeq[1], "data">>

WipeFile == disk[WipePath[1]].files[WipePath[2]]

RawFile(size) ==
    [kind |-> "data", size |-> size, version |-> 0, nonce |-> 0,
     body |-> Fill(size, "x")]

\* How many writes of a pass succeed: all of them, or fewer.
WriteCounts == 0..MaxFileSize

\* SecureDelete returns.
wipe_return(rec, err) == [rec EXCEPT !.pc = "wipe_done", !.res = [NoResult EXCEPT !.err = err]]

\* SecureDelete: os.Stat, os.Remove of an empty file, os.OpenFile.
SecureDelete_stat(p) ==
    /\ ~fatal
    /\ ps[p].pc = "wipe"
    /\ \E openOK \in BOOLEAN :
          IF WipeFile.kind = "none"
          THEN /\ ps' = [ps EXCEPT ![p] = wipe_return(ps[p], "stat")]
               /\ disk' = disk
          ELSE IF WipeFile.size = 0
          THEN /\ ps' = [ps EXCEPT ![p] = wipe_return(ps[p], "none")]
               /\ disk' = [disk EXCEPT ![WipePath[1]].files[WipePath[2]] = NoFile]
          ELSE IF ~openOK
          THEN /\ ps' = [ps EXCEPT ![p] = wipe_return(ps[p], "open")]
               /\ disk' = disk
          ELSE /\ ps' = [ps EXCEPT ![p].pc = "wipe_zeros",
                                   ![p].before.totalBytes = WipeFile.size]
               /\ disk' = disk
    /\ UNCHANGED <<lockVars, quota, env>>

\* One pass has run with result r; the bytes flushed by a pass that
\* succeeded are kept in trace.
wipe_pass(p, r, failed, next) ==
    /\ disk' = [disk EXCEPT ![WipePath[1]].files[WipePath[2]].body = r.content]
    /\ ps' = [ps EXCEPT ![p] =
                IF r.err # "none" THEN wipe_return(ps[p], failed)
                ELSE [ps[p] EXCEPT !.pc = next, !.trace = Append(@, r.content)]]
    /\ UNCHANGED <<lockVars, quota, env>>

\* Pass 1: zeros.
SecureDelete_zeros(p) ==
    /\ ~fatal
    /\ ps[p].pc = "wipe_zeros"
    /\ \E writes \in WriteCounts : \E syncOK \in BOOLEAN :
          wipe_pass(p, overwriteFile(WipeFile.body, ps[p].before.totalBytes, "00",
                                     writes, syncOK),
                    "zero pass", "wipe_ones")

\* Pass 2: ones.
SecureDelete_ones(p) ==
    /\ ~fatal
    /\ ps[p].pc = "wipe_ones"
    /\ \E writes \in WriteCounts : \E syncOK \in BOOLEAN :
          wipe_pass(p, overwriteFile(WipeFile.body, ps[p].before.totalBytes, "FF",
                                     writes, syncOK),
                    "ones pass", "wipe_random")

\* Pass 3: random.
SecureDelete_random(p) ==
    /\ ~fatal
    /\ ps[p].pc = "wipe_random"
    /\ \E writes \in WriteCounts : \E syncOK \in BOOLEAN :
       \E random \in [1..ps[p].before.totalBytes -> RandomBytes] :
          wipe_pass(p, overwriteFileRandom(WipeFile.body, ps[p].before.totalBytes,
                                           random, writes, syncOK),
                    "random pass", "wipe_remove")

\* f.Sync(), f.Close() and os.Remove(path), whose error is returned.
SecureDelete_unlink(p) ==
    /\ ~fatal
    /\ ps[p].pc = "wipe_remove"
    /\ \E removeOK \in BOOLEAN :
          IF removeOK
          THEN /\ disk' = [disk EXCEPT ![WipePath[1]].files[WipePath[2]] = NoFile]
               /\ ps' = [ps EXCEPT ![p] = wipe_return(ps[p], "none")]
          ELSE /\ disk' = disk
               /\ ps' = [ps EXCEPT ![p] = wipe_return(ps[p], "remove")]
    /\ UNCHANGED <<lockVars, quota, env>>

InitWipe ==
    /\ InitLockTable
    /\ \E file \in {NoFile} \cup {RawFile(n) : n \in 0..MaxFileSize} :
          disk = [id \in IDs |->
                    IF id = WipePath[1]
                    THEN [dir |-> TRUE,
                          files |-> [f \in FileNames |->
                                       IF f = WipePath[2] THEN file ELSE NoFile]]
                    ELSE NoDir]
    /\ quota = [totalBytes |-> 0, dropCount |-> 0]
    /\ env = Config({}, FALSE, TRUE, {})
    /\ ps = [p \in Procs |->
               IF p \in StoreCallers THEN [OffProc EXCEPT !.pc = "wipe"]
               ELSE OffProc]

NextWipe ==
    \E p \in StoreCallers :
        \/ SecureDelete_stat(p)
        \/ SecureDelete_zeros(p)
        \/ SecureDelete_ones(p)
        \/ SecureDelete_random(p)
        \/ SecureDelete_unlink(p)

SpecWipe == InitWipe /\ [][NextWipe]_vars

\* C25: a file of size S > 0 is removed by SecureDelete only when S bytes
\* of 0x00, then S bytes of 0xFF, then S random bytes have been written
\* over it and flushed, in this order; a SecureDelete in which a pass has
\* failed returns an error and leaves the file in its directory.
C25_ThreePassesBeforeRemove ==
    [][\A p \in StoreCallers :
          LET size == WipeFile.size
          IN /\ (size > 0 /\ WipeFile'.kind = "none")
                   => /\ Len(ps[p].trace) = 3
                      /\ ps[p].trace[1] = Fill(size, "00")
                      /\ ps[p].trace[2] = Fill(size, "FF")
                      /\ ps[p].trace[3] \in [1..size -> RandomBytes]
                      /\ WipeFile.body = ps[p].trace[3]
                      /\ ps'[p].res.err = "none"
             /\ (ps[p].pc \in {"wipe_zeros", "wipe_ones", "wipe_random"}
                 /\ ps'[p].pc = "wipe_done")
                   => /\ ps'[p].res.err \in {"zero pass", "ones pass", "random pass"}
                      /\ WipeFile'.kind # "none"
             /\ (size > 0 /\ ps'[p].pc = "wipe_done" /\ ps'[p].res.err = "none")
                   => WipeFile'.kind = "none"]_vars

C25_Witness ==
    /\ ps[1].pc = "wipe_done"
    /\ ps[1].res.err = "none"
    /\ Len(ps[1].trace) = 3
    /\ Len(ps[1].trace[3]) = MaxFileSize
    /\ WipeFile.kind = "none"

\* ------------------------------------------------------------------------
\* The receipt manager, called by one goroutine
\* ------------------------------------------------------------------------

MaxGenerate == 2

\* The receipts a caller may present: those of any key for any id, and
\* strings that are no receipt.
PresentedReceipts ==
    {Generate(k, id) : k \in ReceiptKeys, id \in RequestIDs} \cup {<<"bad">>, <<>>}

\* A caller picks the drop id and the receipt it presents.
receipt_call(p) ==
    /\ ~fatal
    /\ ps[p].pc = "receipt"
    /\ \E id \in RequestIDs : \E receipt \in PresentedReceipts :
          ps' = [ps EXCEPT ![p].pc = "receipt_called",
                           ![p].req = [id |-> id, receipt |-> receipt]]
    /\ UNCHANGED <<lockVars, storeVars>>

\* rm.Generate(dropID); the receipts returned are kept in trace.
receipt_Generate(p) ==
    /\ ~fatal
    /\ ps[p].pc = "receipt_called"
    /\ Len(ps[p].trace) < MaxGenerate
    /\ ps' = [ps EXCEPT ![p].trace = Append(@, Generate(env.secret, ps[p].req.id))]
    /\ UNCHANGED <<lockVars, storeVars>>

\* rm.Validate(dropID, receipt).
receipt_Validate(p) ==
    /\ ~fatal
    /\ ps[p].pc = "receipt_called"
    /\ ps' = [ps EXCEPT ![p].pc = "receipt_done",
                        ![p].ok = Validate(env.secret, ps[p].req.id,
                                           ps[p].req.receipt)]
    /\ UNCHANGED <<lockVars, storeVars>>

receipt_next(p) ==
    /\ ~fatal
    /\ ps[p].pc = "receipt_done"
    /\ ps' = [ps EXCEPT ![p].pc = "receipt", ![p].req = NoRequest,
                        ![p].ok = FALSE, ![p].trace = <<>>]
    /\ UNCHANGED <<lockVars, storeVars>>

InitReceipt ==
    /\ InitLockTable
    /\ disk = [id \in IDs |-> NoDir]
    /\ quota = NewQuotaManager(disk)
    /\ \E k \in ReceiptKeys : env = [Config({}, FALSE, TRUE, {}) EXCEPT !.secret = k]
    /\ ps = [p \in Procs |->
               IF p \in StoreCallers THEN [OffProc EXCEPT !.pc = "receipt"]
               ELSE OffProc]

NextReceipt ==
    \E p \in StoreCallers :
        \/ receipt_call(p)
        \/ receipt_Generate(p)
        \/ receipt_Validate(p)
        \/ receipt_next(p)

SpecReceipt == InitReceipt /\ [][NextReceipt]_vars

\* C24: the receipts Generate returns for one drop id are all the same;
\* Validate answers true for the receipt Generate returns for the id and
\* false for every other receipt, the receipt of another id among them.
C24_ReceiptsMatchIds ==
    \A p \in StoreCallers :
        /\ \A i, j \in 1..Len(ps[p].trace) : ps[p].trace[i] = ps[p].trace[j]
        /\ ps[p].pc = "receipt_done" =>
              /\ (\E i \in 1..Len(ps[p].trace) : ps[p].req.receipt = ps[p].trace[i])
                     => ps[p].ok
              /\ ps[p].req.receipt \in {<<"bad">>, <<>>} => ~ps[p].ok
              /\ \A k \in ReceiptKeys : \A id \in RequestIDs :
                    (ps[p].req.receipt = <<"hmac", k, id>>
                     /\ <<k, id>> # <<env.secret, ps[p].req.id>>) => ~ps[p].ok

C24_Witness ==
    \E p \in StoreCallers : \E id \in RequestIDs :
        /\ ps[p].pc = "receipt_done"
        /\ Len(ps[p].trace) = MaxGenerate
        /\ id # ps[p].req.id
        /\ ps[p].req.receipt = <<"hmac", env.secret, id>>
        /\ ~ps[p].ok

\* ------------------------------------------------------------------------
\* Properties of retrieval and cleanup
\* ------------------------------------------------------------------------

\* The requests answered 200 with the contents of drop id.
Served(id) == {p \in Handlers : ps[p].resp.code = 200 /\ ps[p].req.id = id}

\* C1: with delete_after_retrieve set, at most one retrieve request of a
\* drop is answered with its contents, also among concurrent requests.
C1_ServedOnce ==
    env.deleteAfterRetrieve => \A id \in IDs : Cardinality(Served(id)) <= 1

\* Goroutine p is inside GetDrop, reading the files of drop id.
Reading(p, id) == ps[p].sid = id /\ ps[p].pc \in {"GetDrop_meta", "GetDrop_data"}

\* Goroutine p is inside DeleteDrop, removing the directory of drop id.
Removing(p, id) ==
    /\ ps[p].sid = id
    /\ ps[p].pc \in {"SecureDeleteDir", "SecureDelete", "SecureDelete_remove",
                     "SecureDeleteDir_rmdir", "RemoveAll"}

\* GetDrop has returned the reader to handler p and the body is not yet
\* copied to the response.
Streaming(p) == ps[p].pc = "handleRetrieve_copy" /\ ps[p].res.err = "none"

Precedes(trace, x, y) ==
    \E i \in 1..Len(trace) : \E j \in 1..Len(trace) :
        i < j /\ trace[i] = x /\ trace[j] = y

Occurs(trace, x) == \E i \in 1..Len(trace) : trace[i] = x

\* C10: handleRetrieve validates the receipt before anything else; when the
\* validation fails neither Alert nor GetDrop is invoked; when it succeeds
\* on a honeypot id, Alert is invoked before GetDrop.
C10_ValidateFirst ==
    \A p \in Handlers :
        LET t == ps[p].trace
            r == ps[p].req
        IN /\ t # <<>> => t[1] = "validate"
           /\ (r.id # "none" /\ ~Validate(env.secret, r.id, r.receipt))
                 => (~Occurs(t, "alert") /\ ~Occurs(t, "get"))
           /\ (Occurs(t, "get") /\ IsHoneypot(r.id)) => Precedes(t, "alert", "get")
           /\ (ps[p].sid # "none" /\ ps[p].sret = "handleRetrieve_copy")
                 => Occurs(t, "get")

\* One request with a valid receipt on a honeypot has been served, and one
\* with a wrong receipt has been refused.
C10_Witness ==
    \E p \in Handlers : \E q \in Handlers :
        /\ ps[p].trace = <<"validate", "alert", "get">>
        /\ ps[p].resp.code = 200
        /\ ps[q].resp.code = 403
        /\ ps[q].trace = <<"validate">>
        /\ IsHoneypot(ps[q].req.id)

\* The metadata of drop id is readable and older than the maximum age.
Expired(id) ==
    LET m == GetDropMetadata(id)
    IN m.ok /\ env.now - m.payload.timestamp_hour > env.maxAge

\* C15: the cleanup sweep never touches a drop whose id is in the honeypot
\* set, however old it is: it neither try-locks it nor calls DeleteDrop on
\* it, so it never removes its directory.
C15_SweepSkipsProtected ==
    \A id \in env.hp :
        /\ ps[Cleaner].sid # id
        /\ ps[Cleaner].lid # id
        /\ ~Removing(Cleaner, id)

C15_Witness ==
    \E id \in env.hp :
        /\ Expired(id)
        /\ disk[id] = InitDisk[id]
        /\ ps[Cleaner].pc = "cleanup_next"
        /\ ps[Cleaner].entries = <<>>

\* C30: every id of the honeypot set names a drop that is on disk and that
\* GetDrop returns, also after the honeypot has been retrieved on a server
\* with delete_after_retrieve.
C30_HoneypotsStay ==
    \A id \in env.hp : disk[id].dir /\ Retrieve(disk, env.key, id).ok

\* Goroutine p is looking at drop id: it is inside GetDrop(id), or it is
\* the sweep about to read the metadata of id.
Observing(p, id) ==
    \/ Reading(p, id)
    \/ p = Cleaner /\ ps[p].pc = "cleanup_meta" /\ ps[p].sid = id

\* C17: whenever a goroutine looks at a drop, the drop's directory either
\* does not exist or holds both a readable payload file and a readable
\* metadata file: SaveDrop and DeleteDrop never show it half-written or
\* half-removed.
C17_DropDirsComplete ==
    \A id \in IDs : \A p \in Procs :
        Observing(p, id)
        => \/ ~disk[id].dir
           \/ /\ disk[id].files[PayloadName(disk[id])].kind = "data"
              /\ disk[id].files["meta"].kind = "meta"

\* C4: the sweep never removes a drop's directory while another caller
\* holds a read or write lock on the drop, so a removal by the sweep is
\* never interleaved with a GetDrop in progress.
C4_SweepExcludesHolders ==
    \A id \in IDs : \A q \in Procs \ {Cleaner} :
        Removing(Cleaner, id) => (~Holds(q, id) /\ ~Reading(q, id))

\* C6: the cleanup worker never waits for a drop lock: every acquisition it
\* makes, the one of the deletion included, is a try-lock.
C6_CleanupNeverWaits == ~Waiting(Cleaner)

\* C8: while a DeleteDrop removes the files of a drop under its write lock,
\* no GetDrop of that drop is reading them: a GetDrop that did not hold the
\* lock before waits for the removal to end.
C8_NoReadDuringRemoval ==
    \A id \in IDs : \A p \in Procs : \A q \in Procs \ {p} :
        (Removing(p, id) /\ HoldsWrite(p, id)) => ~Reading(q, id)

\* ------------------------------------------------------------------------
\* The sweep over drops of every age and with every kind of metadata file
\* ------------------------------------------------------------------------

\* What a drop directory of the storage root holds when the sweep starts: a
\* drop as SaveDrop left it; a drop without meta file; one whose meta file
\* is not an envelope; one whose envelope is sealed under another storage
\* key; one whose envelope carries no version.
SweepShapes == {"saved", "nometa", "junk", "foreign", "legacy"}

\* The directory of drop id, saved when the clock read log.at.
SweepDir(id, log) ==
    LET d == SavedDir(1, 2, id, <<"a">>, <<IdIndex(id) % ByteMod>>, 0, 1, log.at)
    IN CASE log.shape = "saved"   -> d
         [] log.shape = "nometa"  -> [d EXCEPT !.files["meta"] = NoFile]
         [] log.shape = "junk"    -> [d EXCEPT !.files["meta"] = Junk(NonceSize)]
         [] log.shape = "foreign" ->
              [d EXCEPT !.files["meta"] =
                  SavedDir(2, 2, id, <<"a">>, <<0>>, 0, 1, log.at).files["meta"]]
         [] OTHER                 -> [d EXCEPT !.files["meta"].version = 0]

\* The uploader's record of drop id: when it was saved and in which shape
\* it is on disk.
Logged(id) == ps[Uploader].trace[IdIndex(id)]

\* The records of a storage root swept when the clock reads now.
SweepLogs(now) ==
    {[at |-> t, shape |-> "saved"] : t \in 0..now}
    \cup {[at |-> 0, shape |-> s] : s \in SweepShapes \ {"saved"}}

\* The sweep starts at some moment of the hour that follows NowHours.
SweepTimes == {NowHours * TicksPerHour + t : t \in 0..(TicksPerHour - 1)}

InitSweep ==
    /\ InitLockTable
    /\ \E now \in SweepTimes : \E log \in [1..Len(IDSeq) -> SweepLogs(now)] :
       \E hp \in {{}, {IDSeq[1]}} : \E sd \in BOOLEAN :
          /\ disk = [id \in IDs |-> SweepDir(id, log[IdIndex(id)])]
          /\ ps = [p \in Procs |->
                     IF p = Cleaner THEN [OffProc EXCEPT !.pc = "cleanup"]
                     ELSE IF p = Uploader THEN [OffProc EXCEPT !.trace = log]
                     ELSE OffProc]
          /\ env = [Config(hp, FALSE, sd, IDs) EXCEPT !.now = now]
    /\ quota = NewQuotaManager(disk)

NextSweep ==
    \/ cleanupExpiredDrops
    \/ getLock(Cleaner)
    \/ Lock_announce(Cleaner)
    \/ TryLock(Cleaner)
    \/ Unlock(Cleaner)
    \/ DeleteDrop(Cleaner)

SpecSweep == InitSweep /\ [][NextSweep]_vars

\* The sweep has looked at every entry of the storage root and is about to
\* return.
SweepDone == ps[Cleaner].pc = "cleanup_next" /\ ps[Cleaner].entries = <<>>

\* C34: the sweep deletes a drop only when at least max_age has passed
\* since the clock reading at which the drop was saved.
C34_NotBeforeMaxAge ==
    \A id \in IDs :
        (/\ Logged(id).shape = "saved"
         /\ Removing(Cleaner, id) \/ ~disk[id].dir)
        => env.now - Logged(id).at >= env.maxAge

\* The timestamp held by the metadata of drop id when the sweep started.
StoredTimestamp(id) ==
    loadEncryptedMetadata(SweepDir(id, Logged(id)).files["meta"], env.key, id)
        .payload.timestamp_hour

\* The sweep is inside the DeleteDrop it called for drop id.
SweepDeleting(id) ==
    /\ ps[Cleaner].sid = id
    /\ ps[Cleaner].sret = "cleanup_next"

\* C36: a sweep over unlocked drops deletes an unprotected drop with
\* readable metadata exactly when now minus its stored timestamp is
\* strictly greater than max_age: an older drop is gone when the sweep
\* returns, and a drop of age max_age or less is never touched.
C36_SweepDeletesIffOlder ==
    \A id \in IDs \ env.hp :
        Logged(id).shape = "saved"
        => IF env.now - StoredTimestamp(id) > env.maxAge
           THEN SweepDone => ~disk[id].dir
           ELSE disk[id] = SweepDir(id, Logged(id)) /\ ~SweepDeleting(id)

C36_Witness ==
    /\ SweepDone
    /\ env.hp = {}
    /\ Logged(IDSeq[1]).shape = "saved"
    /\ env.now - StoredTimestamp(IDSeq[1]) = env.maxAge
    /\ disk[IDSeq[1]].dir
    /\ Logged(IDSeq[2]).shape = "saved"
    /\ env.now - StoredTimestamp(IDSeq[2]) > env.maxAge
    /\ ~disk[IDSeq[2]].dir

MaxSaves == 3

\* generateID returns the hex form of 16 bytes of rand.Read: any identifier,
\* whether or not a drop has it.  The upload is one byte.
id_save(p) ==
    /\ ~fatal
    /\ ps[p].pc = "store"
    /\ Len(ps[p].trace) < MaxSaves
    /\ \E id \in IDs : \E b \in Bytes :
          SaveDrop_mkdir_as(p, id, <<"a">>, <<b>>, "store_done")

\* The caller notes the identifier of the drop it was returned.
id_next(p) ==
    /\ ~fatal
    /\ ps[p].pc = "store_done"
    /\ ps' = [ps EXCEPT ![p].pc = "store", ![p].res = NoResult,
                        ![p].trace = IF ps[p].res.err = "none"
                                     THEN Append(@, ps[p].mine.id) ELSE @]
    /\ UNCHANGED <<lockVars, storeVars>>

InitID ==
    /\ InitLockTable
    /\ disk = [id \in IDs |-> NoDir]
    /\ quota = NewQuotaManager(disk)
    /\ env = [Config({}, FALSE, FALSE, {}) EXCEPT !.maxBytes = 0, !.maxDrops = 0]
    /\ ps = [p \in Procs |->
               IF p = Uploader THEN [OffProc EXCEPT !.pc = "store"] ELSE OffProc]

NextID ==
    \/ id_save(Uploader)
    \/ store_SaveDrop(Uploader)
    \/ id_next(Uploader)

SpecID == InitID /\ [][NextID]_vars

\* The identifiers SaveDrop has returned to p so far.
ReturnedTo(p) == {ps[p].trace[k] : k \in 1..Len(ps[p].trace)}

MaxRate == 1

\* Limiter.window, and the idle time after which cleanupVisitors drops a
\* visitor, in clock ticks.
WindowTicks == 1

StaleTicks == 2

\* The last clock reading, and the number of visitor objects allocated.
MaxTime == 3

MaxVisitors == 3

\* Number of Allow calls made.
MaxAllowCalls == 3

IPs == {"1.1.1.1", "2.2.2.2"}

LimitCallers == 1..NumClients

\* For each IP the running window of the limiter, which ends at until, and
\* the Allow calls made in it with the number of them that returned true.
NoWindow == [until |-> -1, calls |-> 0, allowed |-> 0]

NewLimiter(rateLimit, window) ==
    [now |-> 0, rate |-> rateLimit, window |-> window,
     visitors |-> [ip \in IPs |-> 0],
     heap |-> [v \in 1..MaxVisitors |-> [requests |-> 0, window |-> 0, lastSeen |-> 0]],
     made |-> 0, calls |-> 0,
     seen |-> [ip \in IPs |-> NoWindow]]

\* Allow under l.mu: the visitor of the IP is looked up, or created with a
\* window that starts now.  The caller leaves with the pointer.
Allow_lookup(p) ==
    /\ ~fatal
    /\ ps[p].pc = "limit"
    /\ env.calls < MaxAllowCalls
    /\ \E ip \in IPs :
          IF env.visitors[ip] # 0
          THEN /\ env' = [env EXCEPT !.calls = @ + 1]
               /\ ps' = [ps EXCEPT ![p].pc = "Allow", ![p].lid = ip,
                                   ![p].ptr = env.visitors[ip]]
          ELSE /\ env.made < MaxVisitors
               /\ LET v == env.made + 1
                  IN /\ env' = [env EXCEPT
                                  !.calls = @ + 1,
                                  !.made = v,
                                  !.visitors[ip] = v,
                                  !.heap[v] = [requests |-> 0,
                                               window |-> env.now + env.window,
                                               lastSeen |-> env.now],
                                  !.seen[ip] = IF @.until < env.now
                                               THEN [until |-> env.now + env.window,
                                                     calls |-> 0, allowed |-> 0]
                                               ELSE @]
                     /\ ps' = [ps EXCEPT ![p].pc = "Allow", ![p].lid = ip,
                                         ![p].ptr = v]
    /\ UNCHANGED <<lockVars, disk, quota>>

\* Allow under the visitor's mutex: the window is reset when it has
\* expired, the request is refused at the limit and counted otherwise.
Allow_count(p) ==
    /\ ~fatal
    /\ ps[p].pc = "Allow"
    /\ LET v   == ps[p].ptr
           ip  == ps[p].lid
           now == env.now
           h   == IF now > env.heap[v].window
                  THEN [env.heap[v] EXCEPT !.requests = 0,
                                           !.window = now + env.window]
                  ELSE env.heap[v]
           ok  == h.requests < env.rate
           w   == IF now > env.seen[ip].until
                  THEN [until |-> now + env.window, calls |-> 0, allowed |-> 0]
                  ELSE env.seen[ip]
       IN /\ env' = [env EXCEPT
                       !.heap[v] = IF ok THEN [h EXCEPT !.requests = @ + 1,
                                                        !.lastSeen = now]
                                         ELSE h,
                       !.seen[ip] = [w EXCEPT !.calls = @ + 1,
                                              !.allowed = @ + (IF ok THEN 1 ELSE 0)]]
          /\ ps' = [ps EXCEPT ![p].pc = "limit", ![p].ok = ok,
                              ![p].lid = "none", ![p].ptr = 0]
    /\ UNCHANGED <<lockVars, disk, quota>>

\* A tick of the ticker of cleanupVisitors: under l.mu the visitors not
\* seen for longer than the idle time leave the map.
cleanupVisitors ==
    /\ ~fatal
    /\ \E ip \in IPs : env.visitors[ip] # 0
    /\ env' = [env EXCEPT !.visitors =
                 [ip \in IPs |->
                    IF /\ @[ip] # 0
                       /\ env.now - env.heap[@[ip]].lastSeen > StaleTicks
                    THEN 0 ELSE @[ip]]]
    /\ UNCHANGED <<lockVars, disk, quota, ps>>

\* The clock advances.
limit_tick ==
    /\ ~fatal
    /\ env.now < MaxTime
    /\ env' = [env EXCEPT !.now = @ + 1]
    /\ UNCHANGED <<lockVars, disk, quota, ps>>

InitLimit ==
    /\ InitLockTable
    /\ disk = [id \in IDs |-> NoDir]
    /\ quota = [totalBytes |-> 0, dropCount |-> 0]
    /\ \E rateLimit \in 0..MaxRate : env = NewLimiter(rateLimit, WindowTicks)
    /\ ps = [p \in Procs |->
               IF p \in LimitCallers THEN [OffProc EXCEPT !.pc = "limit"]
               ELSE OffProc]

NextLimit ==
    \/ \E p \in LimitCallers : Allow_lookup(p) \/ Allow_count(p)
    \/ cleanupVisitors
    \/ limit_tick

SpecLimit == InitLimit /\ [][NextLimit]_vars

\* C39: for each IP, of the Allow calls made in one window of the limiter
\* exactly min(number of calls, rate) have returned true, whether the calls
\* are sequential or concurrent and whatever happens for other IPs.
C39_AllowedPerWindow ==
    \A ip \in IPs :
        env.seen[ip].allowed =
            (IF env.seen[ip].calls < env.rate THEN env.seen[ip].calls ELSE env.rate)

====
